---- MODULE Spec2Model ----


(***************************************************************************)
(* A model of the extraction post-processing stages of resumeX:            *)
(*   scripts/source_grounding.py   SourceGrounder                          *)
(*   scripts/overlap_dedup.py      OverlapDeduplicator                     *)
(*   scripts/confidence_scorer.py  ConfidenceScorer                        *)
(*   scripts/entity_resolver.py    EntityResolver                          *)
(*   scripts/relation_inferrer.py  RelationInferrer                        *)
(*   scripts/kg_injector.py        KGInjector                              *)
(*   scripts/pipeline.py           ExtractionPipeline                      *)
(*                                                                         *)
(* Conventions.                                                            *)
(*  - A Python str is a sequence of one-character strings; offsets into it *)
(*    are 0-based as in Python, Slice(s, i, j) is s[i:j].                  *)
(*  - A Python dict is a function from key strings to values; Get is       *)
(*    dict.get and Put is item assignment.                                 *)
(*  - A character that a string of this language cannot hold is written    *)
(*    as its code point, "U+3000".                                         *)
(*  - Python objects live in heap, a sequence of dicts; an object is its   *)
(*    index there and a Python list of items is a sequence of indices, so  *)
(*    that aliasing, copying and in-place mutation are visible.  What id() *)
(*    answered for an object is kept in address while the object is alive; *)
(*    id() answers any address that no object alive has.                   *)
(*  - A float is the rational <<n, d>> (d > 0) when the double the         *)
(*    program holds is the one nearest to n / d: a literal, a quotient of  *)
(*    two ints, a result of round().  The result of further arithmetic,    *)
(*    such as ratio * 0.8, is computed on doubles and written as the       *)
(*    double, <<"double", m, s>> for m / 2^s with m a natural number of    *)
(*    53 bits in limbs; FMul, FAdd, FSub and FDiv round to nearest, ties   *)
(*    to even.  round() of a sum takes the thousandth of the exact sum     *)
(*    unless that sum lies halfway between two thousandths, where the      *)
(*    double decides and is computed.                                      *)
(*  - None, where an offset is expected, is the out-of-range offset -1.    *)
(*  - The values of type, match_type, relation_type and scope are plain    *)
(*    strings; every other str is a sequence of characters.                *)
(*  - item.get('type') is <<t>> for the str t and <<>> for None, so that   *)
(*    a missing type differs from every str.                               *)
(*  - None, where a str, a dict or a list is expected, is the empty        *)
(*    sequence <<>>: source_file and kg_format before they are given.      *)
(***************************************************************************)
EXTENDS Integers, Sequences, FiniteSets, TLC

VARIABLES grounder, dedup, heap, extractions, result, pc, walk, hist,
          config, resolver, injector, inferred_relations, kg_format,
          source_file, stats, address

vars == <<grounder, dedup, heap, extractions, result, pc, walk, hist,
         config, resolver, injector, inferred_relations, kg_format,
         source_file, stats, address>>

(***************************************************************************)
(* Bounds of the model.                                                    *)
(***************************************************************************)
MaxSrcLen == 3
MaxTextLen == 4
MaxGroundItems == 3
MaxDedupItems == 4
MaxPos == 4
SpareAddresses == 1

(***************************************************************************)
(* Generic helpers.                                                        *)
(***************************************************************************)
None == 0 - 1

Get(m, k, d) == IF k \in DOMAIN m THEN m[k] ELSE d

Put(m, k, v) == [x \in (DOMAIN m) \cup {k} |-> IF x = k THEN v ELSE m[x]]

Range(s) == {s[i] : i \in DOMAIN s}

Min2(x, y) == IF x <= y THEN x ELSE y

Max2(x, y) == IF x >= y THEN x ELSE y

\* s[i:j] for 0 <= i, clamped to the sequence as Python does.
Slice(s, i, j) ==
    IF Min2(j, Len(s)) <= Max2(i, 0) THEN <<>>
    ELSE SubSeq(s, Max2(i, 0) + 1, Min2(j, Len(s)))

Rep(c, n) == [i \in 1..n |-> c]

StrsUpTo(S, n) == UNION {[1..k -> S] : k \in 0..n}

(***************************************************************************)
(* Floats written as rationals <<n, d>> with d > 0.  The comparisons are   *)
(* those of the doubles nearest to the rationals, whose numerators and     *)
(* denominators are small.  The arithmetic is exact: it gives the value a  *)
(* double of the code is near to, and is used to tell where the error of   *)
(* the double decides an outcome.                                          *)
(***************************************************************************)
RLt(x, y) == x[1] * y[2] < y[1] * x[2]

RLe(x, y) == x[1] * y[2] <= y[1] * x[2]

REq(x, y) == x[1] * y[2] = y[1] * x[2]

RECURSIVE Gcd(_, _)
Gcd(a, b) == IF b = 0 THEN a ELSE Gcd(b, a % b)

RNorm(x) == LET g == Gcd(x[1], x[2]) IN IF g = 0 THEN <<0, 1>> ELSE <<x[1] \div g, x[2] \div g>>

RAdd(x, y) == RNorm(<<x[1] * y[2] + y[1] * x[2], x[2] * y[2]>>)

RMul(x, y) == RNorm(<<x[1] * y[1], x[2] * y[2]>>)

RMin(x, y) == IF RLe(x, y) THEN x ELSE y

RMax(x, y) == IF RLe(y, x) THEN x ELSE y

(***************************************************************************)
(* Binary floating point.  The code computes in IEEE 754 doubles.  A       *)
(* float of the model is written <<n, d>> when the code's double is the    *)
(* one nearest to n / d: a literal, the quotient of two ints, the result   *)
(* of round.  The result of further arithmetic can be another double; it   *)
(* is then written as the double itself, <<"double", m, s>>, which stands  *)
(* for m / 2^s.  The mantissa m is a natural number of exactly 53 bits,    *)
(* and zero is <<"double", <<>>, 0>>, so that equal doubles are equal      *)
(* values of the model.  A natural number of any size is a sequence of     *)
(* limbs below 2^15, least significant first, without a zero limb at its   *)
(* end; zero is <<>>.  All values here are >= 0 and far from overflow and  *)
(* underflow.                                                              *)
(***************************************************************************)
Limb == 32768

LimbBits == 15

MantissaBits == 53

\* The scale at which a quotient is computed before it is rounded.
GuardBits == 75

\* Every operator below takes the value of each argument once, as x \in {a},
\* and works on that value.
BigTrim(a) ==
    CHOOSE r \in {SubSeq(x, 1, Cardinality({i \in DOMAIN x :
                                              \E k \in i..Len(x) : x[k] # 0})) :
                    x \in {a}} : TRUE

\* The natural number n < 2^31 as limbs, and back.
BigOf(n) == BigTrim(<<n % Limb, (n \div Limb) % Limb, n \div (Limb * Limb)>>)

IntOf(a) ==
    CHOOSE r \in {(IF Len(x) >= 1 THEN x[1] ELSE 0)
                  + (IF Len(x) >= 2 THEN Limb * x[2] ELSE 0) : x \in {a}} : TRUE

\* The i-th limb of a, 0 beyond its end.
LimbOf(a, i) == IF i \in DOMAIN a THEN a[i] ELSE 0

\* a + b + c for c < 2^15, untrimmed: carry[i] is the carry out of limb i
BigAddCarry(a, b, c) ==
    CHOOSE r \in
        {LET n == Max2(Len(x), Len(y))
             carry[i \in 0..n] ==
                 IF i = 0 THEN c
                 ELSE (LimbOf(x, i) + LimbOf(y, i) + carry[i - 1]) \div Limb
         IN [i \in 1..(n + 1) |->
               IF i = n + 1 THEN carry[n]
               ELSE (LimbOf(x, i) + LimbOf(y, i) + carry[i - 1]) % Limb] :
           x \in {a}, y \in {b}} : TRUE

BigAdd(a, b) == BigTrim(BigAddCarry(a, b, 0))

\* a - b - c for a >= b + c, untrimmed: borrow[i] is the borrow out of limb i
BigSubBorrow(a, b, c) ==
    CHOOSE r \in
        {LET borrow[i \in 0..Len(x)] ==
                 IF i = 0 THEN c
                 ELSE IF x[i] - LimbOf(y, i) - borrow[i - 1] < 0 THEN 1 ELSE 0
         IN [i \in 1..Len(x) |-> (x[i] - LimbOf(y, i) - borrow[i - 1] + Limb) % Limb] :
           x \in {a}, y \in {b}} : TRUE

BigSub(a, b) == BigTrim(BigSubBorrow(a, b, 0))

BigLt(a, b) ==
    \E x \in {a}, y \in {b} :
        \/ Len(x) < Len(y)
        \/ /\ Len(x) = Len(y)
           /\ \E i \in DOMAIN x : x[i] < y[i] /\ \A j \in (i + 1)..Len(x) : x[j] = y[j]

\* a * c + carry for c <= 2^15 and carry < 2^15, untrimmed
BigMulLimb(a, c, carry) ==
    CHOOSE r \in
        {LET over[i \in 0..Len(x)] ==
                 IF i = 0 THEN carry ELSE (x[i] * c + over[i - 1]) \div Limb
         IN [i \in 1..(Len(x) + 1) |->
               IF i = Len(x) + 1 THEN over[Len(x)]
               ELSE (x[i] * c + over[i - 1]) % Limb] :
           x \in {a}} : TRUE

\* a * b, untrimmed: sum[j] is a times the first j limbs of b
BigMulRaw(a, b) ==
    CHOOSE r \in
        {LET sum[j \in 0..Len(y)] ==
                 IF j = 0 THEN <<>>
                 ELSE BigAddCarry(sum[j - 1],
                                  [i \in 1..(j - 1) |-> 0] \o BigMulLimb(x, y[j], 0), 0)
         IN sum[Len(y)] :
           x \in {a}, y \in {b}} : TRUE

BigMul(a, b) == BigTrim(BigMulRaw(a, b))

\* a * 2^k
BigShl(a, k) ==
    CHOOSE r \in
        {IF x = <<>> THEN <<>>
         ELSE [i \in 1..(k \div LimbBits) |-> 0]
              \o BigTrim(BigMulLimb(x, 2 ^ (k % LimbBits), 0)) : x \in {a}} : TRUE

\* Quotient and remainder of a by d, 0 < d < 2^15; the quotient untrimmed:
\* rest[i] is the remainder of the limbs from i on
BigDivRaw(a, d) ==
    CHOOSE r \in
        {LET rest[i \in 1..(Len(x) + 1)] ==
                 IF i = Len(x) + 1 THEN 0 ELSE (rest[i + 1] * Limb + x[i]) % d
         IN [q |-> [i \in 1..Len(x) |-> (rest[i + 1] * Limb + x[i]) \div d],
             r |-> rest[1]] :
           x \in {a}} : TRUE

\* The integer part of a / 2^k
BigShr(a, k) ==
    CHOOSE r \in
        {BigTrim(BigDivRaw(SubSeq(x, (k \div LimbBits) + 1, Len(x)),
                           2 ^ (k % LimbBits)).q) : x \in {a}} : TRUE

\* The number of bits of a
BitLen(a) ==
    CHOOSE r \in
        {IF x = <<>> THEN 0
         ELSE LimbBits * (Len(x) - 1)
              + (CHOOSE b \in 1..LimbBits : 2 ^ (b - 1) <= x[Len(x)] /\ x[Len(x)] < 2 ^ b) :
           x \in {a}} : TRUE

\* a is odd
BigOdd(a) == \E x \in {a} : x # <<>> /\ x[1] % 2 = 1

\* The integer nearest to (m + e) / 2^k for k > 0, where hi is its integer
\* part: up from hi when the rest is above a half, or is a half and either
\* e > 0 or hi is odd.
BigNearestFrom(m, k, sticky, hi) ==
    CHOOSE r \in
        {IF \/ BigLt(half, rem)
            \/ rem = half /\ (sticky \/ BigOdd(hi))
         THEN BigAdd(hi, <<1>>) ELSE hi :
           rem \in {BigSub(m, BigShl(hi, k))}, half \in {BigShl(<<1>>, k - 1)}} : TRUE

\* The integer nearest to (m + e) / 2^k, where 0 <= e < 1 and e > 0 exactly
\* when sticky; a tie goes to the even integer.
BigNearest(m, k, sticky) ==
    CHOOSE r \in
        {IF k <= 0 THEN BigShl(x, 0 - k)
         ELSE CHOOSE u \in {BigNearestFrom(x, k, sticky, hi) : hi \in {BigShr(x, k)}} : TRUE :
           x \in {m}} : TRUE

\* The double nearest to (m + e) / 2^s: round to nearest, ties to even.
FZero == <<"double", <<>>, 0>>

\* The double m / 2^s for a mantissa of at most 53 bits, or 2^53: the
\* mantissa brought to 53 bits.
FNormalBits(m, s, n) ==
    IF n = 0 THEN FZero
    ELSE IF n > MantissaBits
    THEN <<"double", BigShr(m, n - MantissaBits), s - (n - MantissaBits)>>
    ELSE <<"double", BigShl(m, MantissaBits - n), s + (MantissaBits - n)>>

FNormal(m, s) ==
    CHOOSE r \in {CHOOSE u \in {FNormalBits(x, s, n) : n \in {BitLen(x)}} : TRUE :
                    x \in {m}} : TRUE

\* The double nearest to (m + e) / 2^s: round to nearest, ties to even.
FRoundBits(m, s, sticky, n) ==
    IF n <= MantissaBits THEN FNormalBits(m, s, n)
    ELSE FNormal(BigNearest(m, n - MantissaBits, sticky), s - (n - MantissaBits))

FRound(m, s, sticky) ==
    CHOOSE r \in {CHOOSE u \in {FRoundBits(x, s, sticky, n) : n \in {BitLen(x)}} : TRUE :
                    x \in {m}} : TRUE

\* The double nearest to the rational x = <<n, d>>, 0 <= n, 0 < d < 2^15:
\* the value of a literal, and of one division of two such numbers.
FloatOf(x) ==
    IF x[1] = 0 THEN FZero
    ELSE CHOOSE r \in {FRound(BigTrim(t.q), GuardBits, t.r # 0) :
                         t \in {BigDivRaw(BigShl(BigOf(x[1]), GuardBits), x[2])}} : TRUE

\* x * y, x + y, x - y (for x >= y) and x / n of doubles, each rounded once
FMul(x, y) ==
    CHOOSE r \in {FRound(BigMul(a[2], b[2]), a[3] + b[3], FALSE) : a \in {x}, b \in {y}} : TRUE

FAdd(x, y) ==
    CHOOSE r \in
        {FRound(BigAdd(BigShl(a[2], Max2(a[3], b[3]) - a[3]), BigShl(b[2], Max2(a[3], b[3]) - b[3])),
                Max2(a[3], b[3]), FALSE) : a \in {x}, b \in {y}} : TRUE

FSub(x, y) ==
    CHOOSE r \in
        {FRound(BigSub(BigShl(a[2], Max2(a[3], b[3]) - a[3]), BigShl(b[2], Max2(a[3], b[3]) - b[3])),
                Max2(a[3], b[3]), FALSE) : a \in {x}, b \in {y}} : TRUE

FDiv(x, n) ==
    CHOOSE r \in
        {IF a[2] = <<>> THEN FZero
         ELSE CHOOSE u \in {FRound(BigTrim(t.q), a[3] + GuardBits, t.r # 0) :
                              t \in {BigDivRaw(BigShl(a[2], GuardBits), n)}} : TRUE :
           a \in {x}} : TRUE

\* A float of the model, of either form, as the double
AsDouble(x) == IF Len(x) = 3 THEN x ELSE FloatOf(x)

\* x <= y
FLe(x, y) ==
    \E a \in {x}, b \in {y} :
        ~BigLt(BigShl(b[2], Max2(a[3], b[3]) - b[3]), BigShl(a[2], Max2(a[3], b[3]) - a[3]))

FMin(x, y) == CHOOSE r \in {IF FLe(a, b) THEN a ELSE b : a \in {x}, b \in {y}} : TRUE

FMax(x, y) == CHOOSE r \in {IF FLe(b, a) THEN a ELSE b : a \in {x}, b \in {y}} : TRUE

\* round(x, digits) and format(x, ".<digits>f") of a double, as the rational
\* <<k, scale>> with scale = 10^digits: the multiple of 1/scale nearest to
\* the exact value of x, a tie to the even one.
FRoundTo(x, scale) ==
    CHOOSE r \in {<<IntOf(BigNearest(BigMulLimb(a[2], scale, 0), a[3], FALSE)), scale>> :
                    a \in {x}} : TRUE

(***************************************************************************)
(* SourceGrounder (scripts/source_grounding.py).                           *)
(***************************************************************************)
Chars == {"a", "b", " ", "\n"}

\* The characters for which str.isspace is true, which are also those the
\* regular expression class \s matches; a character that a string of this
\* module cannot hold is written "U+" and the four hexadecimal digits of
\* its code point.
WhiteSpace ==
    {"\t", "\n", "U+000B", "\f", "\r", "U+001C", "U+001D", "U+001E", "U+001F", " ",
     "U+0085", "U+00A0", "U+1680", "U+2000", "U+2001", "U+2002", "U+2003", "U+2004",
     "U+2005", "U+2006", "U+2007", "U+2008", "U+2009", "U+200A", "U+2028", "U+2029",
     "U+202F", "U+205F", "U+3000"}

\* str.isspace / the regular expression class \s
IsSpace(c) == c \in WhiteSpace

\* _normalize: every whitespace character removed.
Normalize(text) == SelectSeq(text, LAMBDA c : ~IsSpace(c))

\* _build_offset_map: the real offset of every non-whitespace character.
BuildOffsetMap(src) ==
    SelectSeq([i \in 1..Len(src) |-> i - 1], LAMBDA real_pos : ~IsSpace(src[real_pos + 1]))

\* __init__: the state of a grounder after construction.
NewGrounder(src) ==
    [source_text |-> src,
     normalized |-> Normalize(src),
     norm_to_real |-> BuildOffsetMap(src)]

\* A plausible slip: the out-of-range branch answers with the length of the
\* offset index instead of the length of the source.
NormalizedToRealOffsetShort(g, norm_offset) ==
    IF norm_offset < 0 THEN 0
    ELSE IF norm_offset >= Len(g.norm_to_real) THEN Len(g.norm_to_real)
    ELSE g.norm_to_real[norm_offset + 1]

\* _normalized_to_real_offset
NormalizedToRealOffset(g, norm_offset) ==
    IF norm_offset < 0 THEN 0
    ELSE IF norm_offset >= Len(g.norm_to_real) THEN Len(g.source_text)
    ELSE g.norm_to_real[norm_offset + 1]

\* str.find: the first offset at which needle occurs in hay, or -1.
Occurs(hay, needle, p) ==
    /\ p + Len(needle) <= Len(hay)
    /\ \A t \in 1..Len(needle) : hay[p + t] = needle[t]

Find(hay, needle) ==
    LET hits == {p \in 0..Len(hay) : Occurs(hay, needle, p)}
    IN IF hits = {} THEN 0 - 1
       ELSE CHOOSE p \in hits : \A q \in hits : p <= q

\* str.count of one character.
Count(s, c) == Cardinality({i \in DOMAIN s : s[i] = c})

\* A plausible slip: the line counted up to the end of the match.
MakeLocLineAtEnd(g, start, end, match_type, confidence) ==
    [char_start |-> start,
     char_end |-> end,
     char_interval |-> <<start, end>>,
     line |-> Count(Slice(g.source_text, 0, end), "\n") + 1,
     match_type |-> match_type,
     confidence |-> confidence]

\* _make_loc
MakeLoc(g, start, end, match_type, confidence) ==
    [char_start |-> start,
     char_end |-> end,
     char_interval |-> <<start, end>>,
     line |-> Count(Slice(g.source_text, 0, start), "\n") + 1,
     match_type |-> match_type,
     confidence |-> confidence]

NoLoc ==
    [char_start |-> None,
     char_end |-> None,
     line |-> None,
     match_type |-> "none",
     confidence |-> <<1, 10>>]

(***************************************************************************)
(* difflib.SequenceMatcher(None, a, b).find_longest_match(0, len(a), 0,    *)
(* len(b)), as constructed at source_grounding.py:108 with the default     *)
(* autojunk: when b has at least AutoJunkMinLen elements, every element    *)
(* that occurs more than len(b) div AutoJunkDiv + 1 times is "popular" and *)
(* is left out of the index the match is seeded from; the seeded match is  *)
(* then extended on both sides by equal elements, popular or not.          *)
(***************************************************************************)
AutoJunkMinLen == 200
AutoJunkDiv == 100

Popular(b) ==
    IF Len(b) >= AutoJunkMinLen
    THEN {c \in Range(b) : Count(b, c) > (Len(b) \div AutoJunkDiv) + 1}
    ELSE {}

\* The blocks a[i:i+k] = b[j:j+k], k > 0, made of indexed elements only.
SeedBlocks(a, b, pop) ==
    {m \in (0..(Len(a) - 1)) \X (0..(Len(b) - 1)) \X (1..Len(a)) :
        /\ m[1] + m[3] <= Len(a)
        /\ m[2] + m[3] <= Len(b)
        /\ \A t \in 1..m[3] : /\ a[m[1] + t] = b[m[2] + t]
                              /\ a[m[1] + t] \notin pop}

\* The first block of maximal size in the order the scan finds them.
BestSeed(a, b, pop) ==
    LET blocks == SeedBlocks(a, b, pop)
    IN IF blocks = {} THEN <<0, 0, 0>>
       ELSE CHOOSE m \in blocks :
              \A o \in blocks :
                 \/ m[3] > o[3]
                 \/ m[3] = o[3] /\ m[1] < o[1]
                 \/ m[3] = o[3] /\ m[1] = o[1] /\ m[2] <= o[2]

RECURSIVE ExtendLeft(_, _, _)
ExtendLeft(a, b, m) ==
    IF m[1] > 0 /\ m[2] > 0 /\ a[m[1]] = b[m[2]]
    THEN ExtendLeft(a, b, <<m[1] - 1, m[2] - 1, m[3] + 1>>)
    ELSE m

RECURSIVE ExtendRight(_, _, _)
ExtendRight(a, b, m) ==
    IF /\ m[1] + m[3] < Len(a)
       /\ m[2] + m[3] < Len(b)
       /\ a[m[1] + m[3] + 1] = b[m[2] + m[3] + 1]
    THEN ExtendRight(a, b, <<m[1], m[2], m[3] + 1>>)
    ELSE m

\* Match(a, b, size) as the tuple <<a-offset, b-offset, size>>.
FindLongestMatch(a, b) ==
    ExtendRight(a, b, ExtendLeft(a, b, BestSeed(a, b, Popular(b))))

\* A plausible slip: the normalized tier tried before the exact one.
AlignNormalizedFirst(g, query) ==
    LET norm_query == Normalize(query)
        norm_pos == Find(g.normalized, norm_query)
        pos == Find(g.source_text, query)
    IN IF norm_pos # 0 - 1
       THEN MakeLoc(g, NormalizedToRealOffset(g, norm_pos),
                    NormalizedToRealOffset(g, norm_pos + Len(norm_query)),
                    "normalized", <<85, 100>>)
       ELSE IF pos # 0 - 1
       THEN MakeLoc(g, pos, pos + Len(query), "exact", <<1, 1>>)
       ELSE NoLoc

\* ratio * 0.8 of _align, for a match of size characters of a query of len.
FuzzyConfidenceOf(size, len) == FMul(FloatOf(<<size, len>>), FloatOf(<<8, 10>>))

\* The fuzzy confidences of the short queries, computed once.
FuzzyConfidences ==
    [len \in 1..(2 * MaxTextLen) |->
        [size \in 0..len |-> FuzzyConfidenceOf(size, len)]]

FuzzyConfidence(size, len) ==
    IF len \in DOMAIN FuzzyConfidences /\ size \in 0..len
    THEN FuzzyConfidences[len][size]
    ELSE FuzzyConfidenceOf(size, len)

\* _align: exact, then normalized, then fuzzy, then none.
Align(g, query) ==
    LET pos == Find(g.source_text, query)
        norm_query == Normalize(query)
        norm_pos == Find(g.normalized, norm_query)
        match == FindLongestMatch(query, g.source_text)
    IN IF pos # 0 - 1
       THEN MakeLoc(g, pos, pos + Len(query), "exact", <<1, 1>>)
       ELSE IF norm_pos # 0 - 1
       THEN MakeLoc(g, NormalizedToRealOffset(g, norm_pos),
                    NormalizedToRealOffset(g, norm_pos + Len(norm_query)),
                    "normalized", <<85, 100>>)
       ELSE IF match[3] > 0 /\ 10 * match[3] >= 3 * Len(query)
       THEN MakeLoc(g, match[2], match[2] + match[3], "fuzzy",
                    FuzzyConfidence(match[3], Len(query)))
       ELSE NoLoc

\* A plausible slip: source_location written into the caller's dict, no copy.
GroundItemInPlace(g, h, id) ==
    LET ext == h[id]
        text == Get(ext, "text", <<>>)
    IN IF text = <<>>
       THEN [heap |-> h, id |-> id]
       ELSE [heap |-> [h EXCEPT ![id] = Put(ext, "source_location", Align(g, text))],
             id |-> id]

\* One iteration of the loop of process: the item itself when it has no
\* text, else a fresh copy carrying source_location.
GroundItem(g, h, id) ==
    LET ext == h[id]
        text == Get(ext, "text", <<>>)
    IN IF text = <<>>
       THEN [heap |-> h, id |-> id]
       ELSE [heap |-> Append(h, Put(ext, "source_location", Align(g, text))),
             id |-> Len(h) + 1]

RECURSIVE GroundFrom(_, _, _, _, _)
GroundFrom(g, h, exts, i, res) ==
    IF i > Len(exts) THEN [heap |-> h, result |-> res]
    ELSE LET r == GroundItem(g, h, exts[i])
         IN GroundFrom(g, r.heap, exts, i + 1, Append(res, r.id))

\* SourceGrounder.process
GrounderProcess(g, h, exts) == GroundFrom(g, h, exts, 1, <<>>)

(***************************************************************************)
(* Grounding runs: a grounder constructed over a source, and one call of   *)
(* process on a list of items.                                             *)
(***************************************************************************)
\* ExtractionPipeline.DEFAULT_CONFIG
DEFAULT_CONFIG ==
    [source_grounding |-> TRUE,
     overlap_dedup |-> TRUE,
     confidence_scoring |-> TRUE,
     entity_resolution |-> TRUE,
     relation_inference |-> TRUE,
     kg_injection |-> FALSE,
     confidence_threshold |-> <<3, 10>>,
     overlap_threshold |-> <<1, 2>>,
     entity_similarity_threshold |-> <<7, 10>>,
     scope_window |-> 50,
     type_aware_dedup |-> FALSE]

\* EntityResolver(threshold) and KGInjector(confidence_threshold)
NewResolver(threshold) == [threshold |-> threshold]

NewInjector(confidence_threshold) == [confidence_threshold |-> confidence_threshold]

\* The stages after deduplication as the pipeline constructs them, before
\* any of them has run: no inferred relation, no graph output.
\* id() has answered for no object.
NoAddresses == <<>>

LaterStagesIdle ==
    /\ config = DEFAULT_CONFIG
    /\ resolver = NewResolver(DEFAULT_CONFIG.entity_similarity_threshold)
    /\ injector = NewInjector(DEFAULT_CONFIG.confidence_threshold)
    /\ inferred_relations = <<>>
    /\ kg_format = <<>>
    /\ source_file = <<>>
    /\ stats = <<>>
    /\ address = NoAddresses

DefaultDedup == [overlap_threshold |-> <<1, 2>>, type_aware |-> FALSE]

NoWalk == [sorted_items |-> <<>>, kept |-> <<>>, invalid |-> <<>>, idx |-> 0]

\* History, for stating properties only: the heap the caller handed over,
\* the pairs whose overlap was computed, the conflicts and how they were
\* decided, and what the walk did for the last candidate.
NoLast == [cand |-> 0, removed |-> {}, kept |-> FALSE]

NewHist(h) == [heap0 |-> h, compared |-> {}, conflicts |-> {}, last |-> NoLast]

\* Sources: every short text, one just long enough for the matcher's
\* popularity heuristic and one just too short for it.
LongSources ==
    {<<"b">> \o Rep("a", AutoJunkMinLen - 1),
     <<"b">> \o Rep("a", AutoJunkMinLen - 2)}

Sources == StrsUpTo(Chars, MaxSrcLen) \cup LongSources

Texts == StrsUpTo(Chars, MaxTextLen)

StaleLoc == [char_start |-> 7, char_end |-> 9, char_interval |-> <<7, 9>>,
             line |-> 5, match_type |-> "exact", confidence |-> <<1, 1>>]

\* Items of the list runs: without a text key, with an empty text, with a
\* text, and the last two again with a source_location already present.
GroundUniverse ==
    {[type |-> "entity"],
     [type |-> "entity", text |-> <<>>],
     [type |-> "rule", text |-> <<"a", "b">>],
     [type |-> "entity", text |-> <<>>, source_location |-> StaleLoc],
     [type |-> "rule", text |-> <<"a", " ", "b">>, source_location |-> StaleLoc]}

ListSources == {<<"a", " ", "b">>, <<"a", "\n", "a", "b">>, <<"a", "\f", "U+3000", "b">>}

InitGroundOne ==
    /\ \E src \in Sources : grounder = NewGrounder(src)
    /\ \E t \in Texts : heap = <<[type |-> "entity", text |-> t]>>
    /\ extractions = <<1>>

InitGroundList ==
    /\ \E src \in ListSources : grounder = NewGrounder(src)
    /\ \E n \in 2..MaxGroundItems : heap \in [1..n -> GroundUniverse]
    /\ extractions = [i \in 1..Len(heap) |-> i]

InitGround ==
    /\ InitGroundOne \/ InitGroundList
    /\ dedup = DefaultDedup
    /\ result = <<>>
    /\ pc = "ready"
    /\ walk = NoWalk
    /\ hist = NewHist(heap)
    /\ LaterStagesIdle

\* grounder.process(extractions)
Ground ==
    /\ pc = "ready"
    /\ LET r == GrounderProcess(grounder, heap, extractions)
       IN /\ heap' = r.heap
          /\ result' = r.result
    /\ pc' = "grounded"
    /\ UNCHANGED <<grounder, dedup, extractions, walk, hist>>
    /\ UNCHANGED <<config, resolver, injector, inferred_relations, kg_format>>
    /\ UNCHANGED <<source_file, stats, address>>

NextGround == Ground

SpecGround == InitGround /\ [][NextGround]_vars

(***************************************************************************)
(* Properties of grounding.                                                *)
(***************************************************************************)
Src == grounder.source_text

InText(i) == Get(hist.heap0[extractions[i]], "text", <<>>)

OutLoc(i) == heap[result[i]].source_location

IsSubstring(needle, hay) ==
    \E p \in 0..Len(hay) : Slice(hay, p, p + Len(needle)) = needle

\* s with its whitespace characters left out.
StripWs(s) == SelectSeq(s, LAMBDA c : c \notin WhiteSpace)

\* The length of the longest common contiguous run of a and b.
LongestCommon(a, b) ==
    LET sizes == {k \in 0..Len(a) :
                    \E i \in 0..(Len(a) - k), j \in 0..(Len(b) - k) :
                       j >= 0 /\ Slice(a, i, i + k) = Slice(b, j, j + k)}
    IN CHOOSE k \in sizes : \A o \in sizes : o <= k

Grounded(i) == pc = "grounded" /\ i \in DOMAIN extractions /\ InText(i) # <<>>

\* C1: an item whose non-empty text is a literal substring of the source is
\* grounded "exact" with confidence 1.0 at the first occurrence of the text,
\* source[start:end] being the text; it is never normalized, fuzzy or none.
C1_ExactTier ==
    \A i \in DOMAIN extractions :
       (Grounded(i) /\ IsSubstring(InText(i), Src)) =>
          LET loc == OutLoc(i)
          IN /\ loc.match_type = "exact"
             /\ REq(loc.confidence, <<1, 1>>)
             /\ loc.char_interval = <<loc.char_start, loc.char_end>>
             /\ Slice(Src, loc.char_start, loc.char_end) = InText(i)
             /\ \A p \in 0..(loc.char_start - 1) :
                   Slice(Src, p, p + Len(InText(i))) # InText(i)

\* C1 happens: a text occurring twice in the source, not at offset 0.
C1_Witness ==
    /\ Grounded(1)
    /\ OutLoc(1).match_type = "exact"
    /\ OutLoc(1).char_start > 0
    /\ \E p \in (OutLoc(1).char_start + 1)..Len(Src) :
          Slice(Src, p, p + Len(InText(1))) = InText(1)

NormalizedCase(i) ==
    /\ Grounded(i)
    /\ ~IsSubstring(InText(i), Src)
    /\ IsSubstring(StripWs(InText(i)), StripWs(Src))

\* C2: a text that is no substring of the source but occurs in it once
\* whitespace is ignored is grounded "normalized" with confidence 0.85, and
\* source[start:end] equals the text up to whitespace.
C2_NormalizedTier ==
    \A i \in DOMAIN extractions :
       NormalizedCase(i) =>
          LET loc == OutLoc(i)
          IN /\ loc.match_type = "normalized"
             /\ REq(loc.confidence, <<85, 100>>)
             /\ 0 <= loc.char_start
             /\ loc.char_start <= loc.char_end
             /\ loc.char_end <= Len(Src)
             /\ StripWs(Slice(Src, loc.char_start, loc.char_end)) = StripWs(InText(i))

\* C2 happens: the match ends at the last non-whitespace character of a
\* source that goes on with whitespace, and spans whitespace inside.
C2_Witness ==
    /\ NormalizedCase(1)
    /\ StripWs(InText(1)) # <<>>
    /\ OutLoc(1).char_end = Len(Src)
    /\ Src[Len(Src)] \in {" ", "\n"}
    /\ OutLoc(1).char_end - OutLoc(1).char_start > Len(StripWs(InText(1))) + 1

\* C2 happens also for a text of whitespace alone.
C2_WitnessBlank ==
    /\ NormalizedCase(1)
    /\ StripWs(InText(1)) = <<>>
    /\ Len(Src) > 0

FuzzyCase(i) ==
    /\ Grounded(i)
    /\ ~IsSubstring(InText(i), Src)
    /\ ~IsSubstring(StripWs(InText(i)), StripWs(Src))

FuzzyAsClaimed(i) ==
    LET loc == OutLoc(i)
        m == LongestCommon(InText(i), Src)
    IN IF 10 * m >= 3 * Len(InText(i))
       THEN /\ loc.match_type = "fuzzy"
            /\ loc.confidence = FMul(FloatOf(<<8, 10>>), FloatOf(<<m, Len(InText(i))>>))
            /\ loc.char_end - loc.char_start = m
            /\ IsSubstring(Slice(Src, loc.char_start, loc.char_end), InText(i))
       ELSE /\ loc.match_type = "none"
            /\ loc.char_start = None
            /\ loc.char_end = None
            /\ loc.line = None
            /\ REq(loc.confidence, <<1, 10>>)

\* C3: when neither the exact nor the normalized tier matches, the item is
\* "fuzzy" with confidence 0.8 * m / len(text) exactly when the longest
\* common contiguous run of text and source has length m >= 0.3 * len(text),
\* located at that run, and otherwise "none" with no offsets and 0.1.
C3_FuzzyTier ==
    \A i \in DOMAIN extractions : FuzzyCase(i) => FuzzyAsClaimed(i)

\* C3 restricted to sources below the matcher's popularity heuristic.
C3_FuzzyTierShortSource ==
    \A i \in DOMAIN extractions :
       (FuzzyCase(i) /\ Len(Src) < AutoJunkMinLen) => FuzzyAsClaimed(i)

\* C4: process returns as many items as it was given, in the same order; an
\* item without text is the very same object, unchanged; any other item is a
\* fresh copy that differs from its original by source_location alone; no
\* object of the caller is modified.
C4_GroundFrame ==
    pc = "grounded" =>
       /\ Len(result) = Len(extractions)
       /\ \A id \in DOMAIN hist.heap0 : heap[id] = hist.heap0[id]
       /\ \A i \in DOMAIN extractions :
             LET ext == hist.heap0[extractions[i]]
                 out == heap[result[i]]
             IN IF InText(i) = <<>>
                THEN /\ result[i] = extractions[i]
                     /\ out = ext
                     /\ ("source_location" \in DOMAIN out) = ("source_location" \in DOMAIN ext)
                ELSE /\ result[i] \notin DOMAIN hist.heap0
                     /\ \A j \in DOMAIN result : j # i => result[j] # result[i]
                     /\ DOMAIN out = (DOMAIN ext) \cup {"source_location"}
                     /\ \A k \in (DOMAIN ext) \ {"source_location"} : out[k] = ext[k]
                     /\ out.source_location = Align(grounder, InText(i))

\* C4 happens: a list with an item passed through, carrying an old
\* source_location, and an item copied whose old source_location is replaced.
C4_Witness ==
    /\ pc = "grounded"
    /\ Len(result) >= 2
    /\ \E i, j \in DOMAIN result :
          /\ i < j
          /\ InText(i) = <<>>
          /\ "source_location" \in DOMAIN heap[result[i]]
          /\ InText(j) # <<>>
          /\ "source_location" \in DOMAIN hist.heap0[extractions[j]]
          /\ heap[result[j]].source_location # hist.heap0[extractions[j]].source_location

(***************************************************************************)
(* OverlapDeduplicator (scripts/overlap_dedup.py).                         *)
(***************************************************************************)
\* The test of process on an item's interval: source_location.char_interval
\* present, non-empty and with no None endpoint.
HasValidIntervalFirstOnly(ext) ==
    LET loc == Get(ext, "source_location", <<>>)
    IN /\ "char_interval" \in DOMAIN loc
       /\ loc.char_interval # <<>>
       /\ loc.char_interval[1] # None

HasValidInterval(ext) ==
    LET loc == Get(ext, "source_location", <<>>)
    IN /\ "char_interval" \in DOMAIN loc
       /\ loc.char_interval # <<>>
       /\ loc.char_interval[1] # None
       /\ loc.char_interval[2] # None

IntervalOf(ext) == ext.source_location.char_interval

\* A plausible slip: the overlap measured against the longer interval.
OverlapRatioMax(a, b) ==
    LET ia == IntervalOf(a)
        ib == IntervalOf(b)
        overlap_start == Max2(ia[1], ib[1])
        overlap_end == Min2(ia[2], ib[2])
        max_len == Max2(ia[2] - ia[1], ib[2] - ib[1])
    IN IF overlap_start >= overlap_end THEN <<0, 1>>
       ELSE IF max_len = 0 THEN <<0, 1>>
       ELSE <<overlap_end - overlap_start, max_len>>

\* _overlap_ratio
OverlapRatio(a, b) ==
    LET ia == IntervalOf(a)
        ib == IntervalOf(b)
        overlap_start == Max2(ia[1], ib[1])
        overlap_end == Min2(ia[2], ib[2])
        min_len == Min2(ia[2] - ia[1], ib[2] - ib[1])
    IN IF overlap_start >= overlap_end THEN <<0, 1>>
       ELSE IF min_len = 0 THEN <<0, 1>>
       ELSE <<overlap_end - overlap_start, min_len>>

\* count_attrs: the truthy keys other than the four excluded ones (the
\* value of relation_type and of scope is a plain string, see above).
CountAttrs(ext) ==
    Cardinality({k \in (DOMAIN ext) \ {"text", "source_location", "type", "confidence"} :
                    IF k \in {"relation_type", "scope"} THEN ext[k] # "" ELSE ext[k] # <<>>})

\* A plausible slip: a tie on every criterion decided for the new item.
IsBetterOnTie(a, b) ==
    IF CountAttrs(a) # CountAttrs(b) THEN CountAttrs(a) > CountAttrs(b)
    ELSE IF Len(Get(a, "text", <<>>)) # Len(Get(b, "text", <<>>))
    THEN Len(Get(a, "text", <<>>)) > Len(Get(b, "text", <<>>))
    ELSE RLe(Get(b, "confidence", <<0, 1>>), Get(a, "confidence", <<0, 1>>))

\* _is_better
IsBetter(a, b) ==
    IF CountAttrs(a) # CountAttrs(b) THEN CountAttrs(a) > CountAttrs(b)
    ELSE IF Len(Get(a, "text", <<>>)) # Len(Get(b, "text", <<>>))
    THEN Len(Get(a, "text", <<>>)) > Len(Get(b, "text", <<>>))
    ELSE RLt(Get(b, "confidence", <<0, 1>>), Get(a, "confidence", <<0, 1>>))

\* item.get('type'): <<t>> for the str t, and <<>> for None, when the key
\* is missing; None is no str, the str 'None' neither.
TypeOf(ext) == IF "type" \in DOMAIN ext THEN <<ext.type>> ELSE <<>>

\* The values of item.get('type') that are a str of types.
Typed(types) == {<<t>> : t \in types}

\* A plausible slip: the type filter applied whatever type_aware says.
SkipsByTypeAlways(cfg, a, b) == TypeOf(a) # TypeOf(b)

\* The type filter of the inner loop.
SkipsByType(cfg, a, b) == cfg.type_aware /\ TypeOf(a) # TypeOf(b)

\* list.remove(x): the first element equal to x (as a dict, by value) goes.
RemoveFirstEqual(h, lst, x) ==
    LET f == CHOOSE i \in DOMAIN lst :
                /\ h[lst[i]] = h[x]
                /\ \A j \in 1..(i - 1) : h[lst[j]] # h[x]
    IN [removed |-> lst[f],
        lst |-> SubSeq(lst, 1, f - 1) \o SubSeq(lst, f + 1, Len(lst))]

\* The inner loop "for kept_item in kept" for one candidate, from iterator
\* position j on.  The list iterator is an index into kept: after
\* kept.remove the elements behind the removed one move down by one while
\* the index still advances, so the element that followed is not visited.
RECURSIVE InnerLoop(_, _, _, _, _, _)
InnerLoop(h, cfg, item, kept, j, acc) ==
    IF j > Len(kept)
    THEN [kept |-> kept, should_keep |-> TRUE, compared |-> acc.compared,
          conflicts |-> acc.conflicts, removed |-> acc.removed]
    ELSE LET kept_item == kept[j]
         IN IF SkipsByType(cfg, h[item], h[kept_item])
            THEN InnerLoop(h, cfg, item, kept, j + 1, acc)
            ELSE LET overlap == OverlapRatio(h[item], h[kept_item])
                     seen == acc.compared \cup {<<item, kept_item>>}
                 IN IF RLt(cfg.overlap_threshold, overlap)
                    THEN IF IsBetter(h[item], h[kept_item])
                         THEN LET r == RemoveFirstEqual(h, kept, kept_item)
                              IN InnerLoop(h, cfg, item, r.lst, j + 1,
                                    [compared |-> seen,
                                     conflicts |-> acc.conflicts \cup {<<item, kept_item, TRUE>>},
                                     removed |-> acc.removed \cup {r.removed}])
                         ELSE [kept |-> kept, should_keep |-> FALSE, compared |-> seen,
                               conflicts |-> acc.conflicts \cup {<<item, kept_item, FALSE>>},
                               removed |-> acc.removed]
                    ELSE InnerLoop(h, cfg, item, kept, j + 1,
                                   [acc EXCEPT !.compared = seen])

\* One iteration of "for item in sorted_items".
WalkItem(h, cfg, kept, item) ==
    LET r == InnerLoop(h, cfg, item, kept, 1,
                       [compared |-> {}, conflicts |-> {}, removed |-> {}])
    IN [r EXCEPT !.kept = IF r.should_keep THEN Append(r.kept, item) ELSE r.kept]

StartOf(h, id) == IntervalOf(h[id])[1]

\* sorted(valid, key=start): stable, ties keep their input order.
SortByStart(h, valid) ==
    LET rank(p) == Cardinality({q \in DOMAIN valid :
                       \/ StartOf(h, valid[q]) < StartOf(h, valid[p])
                       \/ StartOf(h, valid[q]) = StartOf(h, valid[p]) /\ q <= p})
    IN [r \in DOMAIN valid |-> valid[CHOOSE p \in DOMAIN valid : rank(p) = r]]

ValidItems(h, exts) == SelectSeq(exts, LAMBDA id : HasValidInterval(h[id]))

InvalidItems(h, exts) == SelectSeq(exts, LAMBDA id : ~HasValidInterval(h[id]))

RECURSIVE WalkFrom(_, _, _, _, _)
WalkFrom(h, cfg, sorted_items, i, kept) ==
    IF i > Len(sorted_items) THEN kept
    ELSE WalkFrom(h, cfg, sorted_items, i + 1, WalkItem(h, cfg, kept, sorted_items[i]).kept)

\* OverlapDeduplicator.process as a function of the heap and the list.
DedupProcess(h, cfg, exts) ==
    IF exts = <<>> THEN <<>>
    ELSE IF ValidItems(h, exts) = <<>> THEN InvalidItems(h, exts)
    ELSE WalkFrom(h, cfg, SortByStart(h, ValidItems(h, exts)), 1, <<>>)
            \o InvalidItems(h, exts)

(***************************************************************************)
(* Dedup runs: one call of process, the walk over the sorted items taken   *)
(* one candidate at a time.                                                *)
(***************************************************************************)
At(s, e) == [char_interval |-> <<s, e>>, line |-> 1]

\* Items of the dedup runs.  Located items over the offsets 0..3 that differ
\* in interval, in populated attributes, in text length, in confidence and
\* in type; and three items without a valid interval.
DedupUniverse ==
    {[type |-> "entity", text |-> <<"a", "b">>, source_location |-> At(0, 2)],
     [type |-> "entity", text |-> <<"a", "b">>, source_location |-> At(1, 3)],
     [type |-> "entity", text |-> <<"a">>, source_location |-> At(1, 2),
      summary |-> <<"s">>],
     [type |-> "entity", text |-> <<"a", "b">>, source_location |-> At(1, 3),
      summary |-> <<"s">>],
     [type |-> "entity", text |-> <<"a">>, source_location |-> At(1, 1)],
     [type |-> "rule", text |-> <<"a">>, source_location |-> At(1, 2),
      confidence |-> <<9, 10>>],
     [type |-> "entity", text |-> <<"a">>, source_location |-> At(1, 2)],
     [type |-> "entity", text |-> <<"a", "b">>],
     [type |-> "rule", text |-> <<"a">>,
      source_location |-> [char_interval |-> <<1, None>>, line |-> 1]],
     [type |-> "rule", text |-> <<"b", "b">>, source_location |-> NoLoc]}

\* The batch of the example at the end of overlap_dedup.py (the texts and
\* summaries keep their lengths, not their characters).
MainExample ==
    <<[type |-> "entity",
       text |-> <<"c", "l", "a", "s", "s", " ", "M", "L", "e", "v", "e", "l">>,
       source_location |-> [char_interval |-> <<0, 12>>, line |-> 1],
       summary_cn |-> <<"g", "k", "l">>],
      [type |-> "entity",
       text |-> <<"M", "L", "e", "v", "e", "l">>,
       source_location |-> [char_interval |-> <<6, 12>>, line |-> 1]],
      [type |-> "rule",
       text |-> <<"j", "z", "x", "g">>,
       source_location |-> [char_interval |-> <<50, 60>>, line |-> 3]],
      [type |-> "rule",
       text |-> <<"j", "z", "x", "g", "p", "z">>,
       source_location |-> [char_interval |-> <<50, 65>>, line |-> 3],
       summary_cn |-> <<"p", "z", "x", "g", "j", "l">>]>>

\* Items on one interval: two without a type and one of the type 'None',
\* which is not the None that get('type') gives for the others.
UntypedExample ==
    <<[text |-> <<"a">>, source_location |-> At(0, 2)],
      [type |-> "None", text |-> <<"a">>, source_location |-> At(0, 2)],
      [text |-> <<"a">>, source_location |-> At(0, 2)]>>

InitDedup ==
    /\ grounder = NewGrounder(<<>>)
    /\ \E ta \in BOOLEAN : dedup = [overlap_threshold |-> <<1, 2>>, type_aware |-> ta]
    /\ \/ \E n \in 0..MaxDedupItems : heap \in [1..n -> DedupUniverse]
       \/ heap \in {MainExample, UntypedExample}
    /\ extractions = [i \in 1..Len(heap) |-> i]
    /\ result = <<>>
    /\ pc = "ready"
    /\ walk = NoWalk
    /\ hist = NewHist(heap)
    /\ LaterStagesIdle

\* process, up to the early returns: an empty list, or no located item.
DedupNothing ==
    /\ pc = "ready"
    /\ \/ /\ extractions = <<>>
          /\ result' = <<>>
       \/ /\ extractions # <<>>
          /\ ValidItems(heap, extractions) = <<>>
          /\ result' = InvalidItems(heap, extractions)
    /\ pc' = "deduped"
    /\ UNCHANGED <<grounder, dedup, heap, extractions, walk, hist>>
    /\ UNCHANGED <<config, resolver, injector, inferred_relations, kg_format>>
    /\ UNCHANGED <<source_file, stats, address>>

\* process, up to the start of the walk: the split and the sort.
DedupStart ==
    /\ pc = "ready"
    /\ ValidItems(heap, extractions) # <<>>
    /\ walk' = [sorted_items |-> SortByStart(heap, ValidItems(heap, extractions)),
                kept |-> <<>>,
                invalid |-> InvalidItems(heap, extractions),
                idx |-> 1]
    /\ pc' = "walking"
    /\ UNCHANGED <<grounder, dedup, heap, extractions, result, hist>>
    /\ UNCHANGED <<config, resolver, injector, inferred_relations, kg_format>>
    /\ UNCHANGED <<source_file, stats, address>>

\* One candidate of the walk.
DedupCandidate ==
    /\ pc = "walking"
    /\ walk.idx <= Len(walk.sorted_items)
    /\ LET item == walk.sorted_items[walk.idx]
           r == WalkItem(heap, dedup, walk.kept, item)
       IN /\ walk' = [walk EXCEPT !.kept = r.kept, !.idx = @ + 1]
          /\ hist' = [hist EXCEPT !.compared = @ \cup r.compared,
                                  !.conflicts = @ \cup r.conflicts,
                                  !.last = [cand |-> item, removed |-> r.removed,
                                            kept |-> r.should_keep]]
    /\ UNCHANGED <<grounder, dedup, heap, extractions, result, pc>>
    /\ UNCHANGED <<config, resolver, injector, inferred_relations, kg_format>>
    /\ UNCHANGED <<source_file, stats, address>>

\* return kept + invalid
DedupReturn ==
    /\ pc = "walking"
    /\ walk.idx > Len(walk.sorted_items)
    /\ result' = walk.kept \o walk.invalid
    /\ pc' = "deduped"
    /\ UNCHANGED <<grounder, dedup, heap, extractions, walk, hist>>
    /\ UNCHANGED <<config, resolver, injector, inferred_relations, kg_format>>
    /\ UNCHANGED <<source_file, stats, address>>

NextDedup == DedupNothing \/ DedupStart \/ DedupCandidate \/ DedupReturn

SpecDedup == InitDedup /\ [][NextDedup]_vars

\* The walk, step by step, computes process.
DedupStepsAgree ==
    pc = "deduped" => result = DedupProcess(hist.heap0, dedup, extractions)

(***************************************************************************)
(* Overlap runs: _overlap_ratio applied to two located items, both ways.   *)
(***************************************************************************)
Intervals == {iv \in (0..MaxPos) \X (0..MaxPos) : iv[1] <= iv[2]}

InitOverlap ==
    /\ grounder = NewGrounder(<<>>)
    /\ dedup = DefaultDedup
    /\ \E ia \in Intervals, ib \in Intervals :
          heap = <<[type |-> "entity", text |-> <<"a">>,
                    source_location |-> [char_interval |-> ia, line |-> 1]],
                   [type |-> "entity", text |-> <<"a">>,
                    source_location |-> [char_interval |-> ib, line |-> 1]]>>
    /\ extractions = <<1, 2>>
    /\ result = <<>>
    /\ pc = "ready"
    /\ walk = NoWalk
    /\ hist = NewHist(heap)
    /\ LaterStagesIdle

\* _overlap_ratio(a, b) and _overlap_ratio(b, a)
Measure ==
    /\ pc = "ready"
    /\ result' = <<OverlapRatio(heap[1], heap[2]), OverlapRatio(heap[2], heap[1])>>
    /\ pc' = "measured"
    /\ UNCHANGED <<grounder, dedup, heap, extractions, walk, hist>>
    /\ UNCHANGED <<config, resolver, injector, inferred_relations, kg_format>>
    /\ UNCHANGED <<source_file, stats, address>>

NextOverlap == Measure

SpecOverlap == InitOverlap /\ [][NextOverlap]_vars

(***************************************************************************)
(* Properties of the overlap ratio and of dedup.                           *)
(***************************************************************************)
\* The unit cells [x, x+1) an interval covers.
Cells(iv) == {x \in 0..(iv[2] - 1) : iv[1] <= x}

SmallerOf(S, T) == IF Cardinality(S) <= Cardinality(T) THEN S ELSE T

\* C5: the overlap ratio is symmetric and within [0, 1]; for intervals that
\* intersect it is the length of the intersection over the length of the
\* shorter interval, and it is 0 for intervals that do not intersect,
\* touching and zero-length ones included.
C5_OverlapRatio ==
    pc = "measured" =>
       LET A == Cells(IntervalOf(heap[1]))
           B == Cells(IntervalOf(heap[2]))
       IN /\ REq(result[1], result[2])
          /\ result[1][2] > 0
          /\ RLe(<<0, 1>>, result[1])
          /\ RLe(result[1], <<1, 1>>)
          /\ A \cap B # {} =>
                REq(result[1], <<Cardinality(A \cap B), Cardinality(SmallerOf(A, B))>>)
          /\ A \cap B = {} => REq(result[1], <<0, 1>>)

\* C5 happens: two intervals of different lengths that overlap in part.
C5_Witness ==
    /\ pc = "measured"
    /\ RLt(<<0, 1>>, result[1])
    /\ RLt(result[1], <<1, 1>>)
    /\ IntervalOf(heap[1])[2] - IntervalOf(heap[1])[1]
          # IntervalOf(heap[2])[2] - IntervalOf(heap[2])[1]

Located(ext) ==
    /\ "source_location" \in DOMAIN ext
    /\ "char_interval" \in DOMAIN ext.source_location
    /\ ext.source_location.char_interval[1] >= 0
    /\ ext.source_location.char_interval[2] >= 0

OverThreshold(a, b) == RLt(dedup.overlap_threshold, OverlapRatio(a, b))

UnlocatedInput == SelectSeq(extractions, LAMBDA id : ~Located(hist.heap0[id]))

KeptCount == Len(result) - Len(UnlocatedInput)

\* C6: after process no two located items of the output overlap beyond the
\* threshold (with type_aware, no two of the same type).
C6_NoOverlapAmongKept ==
    pc = "deduped" =>
       \A i, j \in 1..KeptCount :
          (i < j /\ (dedup.type_aware => TypeOf(heap[result[i]]) = TypeOf(heap[result[j]])))
             => ~OverThreshold(heap[result[i]], heap[result[j]])

\* C7: the items without a valid interval take no part in a comparison and
\* end the output, each once, unmodified and in input order, after the kept
\* located items, which are in non-decreasing order of interval start; the
\* output holds items of the input only.
C7_UnlocatedBypass ==
    /\ heap = hist.heap0
    /\ \A c \in hist.compared : Located(heap[c[1]]) /\ Located(heap[c[2]])
    /\ pc = "deduped" =>
          /\ KeptCount >= 0
          /\ SubSeq(result, KeptCount + 1, Len(result)) = UnlocatedInput
          /\ \A i \in 1..KeptCount : Located(heap[result[i]])
          /\ \A i \in 1..(KeptCount - 1) :
                StartOf(heap, result[i]) <= StartOf(heap, result[i + 1])
          /\ \A i \in DOMAIN result : result[i] \in Range(extractions)
          /\ \A i, j \in DOMAIN result : i # j => result[i] # result[j]

\* C7 happens: two unlocated items of different kinds around located items
\* that come in decreasing order of start, one of which is discarded.
C7_Witness ==
    /\ pc = "deduped"
    /\ Len(UnlocatedInput) >= 2
    /\ \E i, j \in DOMAIN UnlocatedInput :
          /\ "source_location" \notin DOMAIN heap[UnlocatedInput[i]]
          /\ "source_location" \in DOMAIN heap[UnlocatedInput[j]]
    /\ KeptCount >= 2
    /\ ~Located(heap[extractions[1]])
    /\ \E i, j \in DOMAIN extractions :
          /\ i < j
          /\ Located(heap[extractions[i]])
          /\ Located(heap[extractions[j]])
          /\ extractions[i] \in Range(result)
          /\ extractions[j] \in Range(result)
          /\ StartOf(heap, extractions[j]) < StartOf(heap, extractions[i])

\* The criteria of the claim, in order.
Rank(ext) ==
    <<Cardinality({k \in DOMAIN ext :
                     /\ k \notin {"text", "source_location", "type", "confidence"}
                     /\ ext[k] # <<>>}),
      IF "text" \in DOMAIN ext THEN Len(ext.text) ELSE 0,
      IF "confidence" \in DOMAIN ext THEN ext.confidence ELSE <<0, 1>>>>

LexGreater(x, y) ==
    \/ x[1] > y[1]
    \/ x[1] = y[1] /\ x[2] > y[2]
    \/ x[1] = y[1] /\ x[2] = y[2] /\ RLt(y[3], x[3])

LastConflicts == {c \in hist.conflicts : c[1] = hist.last.cand}

\* C8: a conflict is decided for the candidate exactly when its (populated
\* attributes, text length, confidence) is lexicographically greater than
\* the kept item's, a complete tie going to the kept item; the loser of the
\* conflict leaves the kept set.  In the example batch, (0,12) and (6,12)
\* overlap with ratio 1.0 and the one with the summary is in the output.
C8_BetterWins ==
    /\ \A c \in hist.conflicts :
          /\ OverThreshold(heap[c[1]], heap[c[2]])
          /\ c[3] = LexGreater(Rank(heap[c[1]]), Rank(heap[c[2]]))
    /\ \A c \in LastConflicts :
          IF c[3]
          THEN \E id \in hist.last.removed :
                  heap[id] = heap[c[2]] /\ id \notin Range(walk.kept)
          ELSE ~hist.last.kept /\ c[1] \notin Range(walk.kept)
    /\ (pc = "deduped" /\ hist.heap0 = MainExample) =>
          /\ REq(OverlapRatio(heap[1], heap[2]), <<1, 1>>)
          /\ 1 \in Range(result)
          /\ 2 \notin Range(result)

\* C8 happens: one conflict decided by confidence alone and one complete
\* tie, in the same run.
C8_Witness ==
    /\ pc = "deduped"
    /\ \E c \in hist.conflicts :
          /\ c[3]
          /\ Rank(heap[c[1]])[1] = Rank(heap[c[2]])[1]
          /\ Rank(heap[c[1]])[2] = Rank(heap[c[2]])[2]
    /\ \E c \in hist.conflicts :
          /\ ~c[3]
          /\ Rank(heap[c[1]]) = Rank(heap[c[2]])

\* C8 happens in the example batch too.
C8_WitnessExample ==
    pc = "deduped" /\ hist.heap0 = MainExample /\ Len(result) = 2

\* C9: a candidate for which a kept item was removed is itself in the kept
\* set once it has been processed; a candidate that loses takes no kept
\* item with it.
C9_LoserOnly ==
    hist.last.removed # {} =>
       hist.last.kept /\ hist.last.cand \in Range(walk.kept)

EraseType(ext) == [k \in (DOMAIN ext) \ {"type"} |-> ext[k]]

ErasedHeap == [id \in DOMAIN hist.heap0 |-> EraseType(hist.heap0[id])]

LocatedInput == {id \in Range(extractions) : Located(hist.heap0[id])}

\* C10: with type_aware, items of different type are never compared, an
\* item is missing from the output only if an item of its own type overlaps
\* it beyond the threshold, and a batch of pairwise different types is kept
\* whole; without type_aware the same items are kept as in the batch with
\* every type removed.
C10_TypeAware ==
    /\ dedup.type_aware =>
          \A c \in hist.compared : TypeOf(heap[c[1]]) = TypeOf(heap[c[2]])
    /\ (pc = "deduped" /\ dedup.type_aware) =>
          /\ \A id \in LocatedInput :
                id \notin Range(result) =>
                   \E o \in LocatedInput :
                      /\ o # id
                      /\ TypeOf(heap[o]) = TypeOf(heap[id])
                      /\ OverThreshold(heap[o], heap[id])
          /\ (\A a, b \in LocatedInput : a # b => TypeOf(heap[a]) # TypeOf(heap[b]))
                => Range(result) = Range(extractions)
    /\ (pc = "deduped" /\ ~dedup.type_aware) =>
          LET erased == DedupProcess(ErasedHeap, dedup, extractions)
          IN /\ Len(erased) = Len(result)
             /\ \A i \in DOMAIN result :
                   EraseType(heap[result[i]]) = ErasedHeap[erased[i]]

\* C10 happens: with type_aware, an entity and a rule on the same interval
\* are both kept while a second entity there is discarded.
C10_Witness ==
    /\ pc = "deduped"
    /\ dedup.type_aware
    /\ Len(result) < Len(extractions)
    /\ \E i, j \in DOMAIN result :
          /\ Located(heap[result[i]])
          /\ Located(heap[result[j]])
          /\ TypeOf(heap[result[i]]) # TypeOf(heap[result[j]])
          /\ OverThreshold(heap[result[i]], heap[result[j]])

\* C10 happens for items without a type: with type_aware, an item without
\* a type and one of the type 'None' on the same interval are both kept,
\* not compared, while a second item without a type is discarded.
C10_WitnessUntyped ==
    /\ pc = "deduped"
    /\ dedup.type_aware
    /\ hist.heap0 = UntypedExample
    /\ result = <<1, 2>>
    /\ hist.compared # {}
    /\ \A c \in hist.compared : "type" \notin DOMAIN heap[c[1]] \cup DOMAIN heap[c[2]]

\* C10 happens without type_aware: an entity and a rule are compared and one
\* of them is discarded.
C10_WitnessOff ==
    /\ pc = "deduped"
    /\ ~dedup.type_aware
    /\ \E c \in hist.conflicts : TypeOf(heap[c[1]]) # TypeOf(heap[c[2]])

(***************************************************************************)
(* ConfidenceScorer (scripts/confidence_scorer.py).                        *)
(* round(x, 3) is the multiple of 1/1000 nearest to the double x, written  *)
(* <<k, 1000>>.                                                            *)
(***************************************************************************)
\* Python truthiness of a str or list value
Truthy(v) == v # <<>>

WEIGHTS ==
    [match_quality |-> <<35, 100>>,
     attr_completeness |-> <<25, 100>>,
     text_specificity |-> <<20, 100>>,
     type_consistency |-> <<20, 100>>]

MATCH_SCORES ==
    [exact |-> <<1, 1>>,
     normalized |-> <<85, 100>>,
     fuzzy |-> <<6, 10>>,
     none |-> <<1, 10>>]

\* the first lines of _score: the match type read and looked up
MatchQuality(ext) ==
    LET match_type == Get(Get(ext, "source_location", <<>>), "match_type", "none")
    IN Get(MATCH_SCORES, match_type, <<1, 10>>)

key_attrs == <<"summary_cn", "trigger_context", "consequence", "reason", "related_entities">>

CalcAttrCompleteness(ext) ==
    LET has_summary == IF Truthy(Get(ext, "summary_cn", <<>>)) THEN 1 ELSE 0
        other_attrs == Cardinality({i \in 2..Len(key_attrs) :
                                      Truthy(Get(ext, key_attrs[i], <<>>))})
        total == has_summary + other_attrs
    IN RMin(<<1, 1>>, RNorm(<<total, 3>>))

\* _calc_text_specificity: 0.0, 1.0, length / 10.0, and for a text of more
\* than 200 characters the double max(0.3, 1.0 - (length - 200) / 800.0).
CalcTextSpecificity(ext) ==
    LET length == Len(Get(ext, "text", <<>>))
    IN IF length = 0 THEN <<0, 1>>
       ELSE IF 10 <= length /\ length <= 200 THEN <<1, 1>>
       ELSE IF length < 10 THEN RNorm(<<length, 10>>)
       ELSE IF length - 200 <= 800
       THEN FMax(FloatOf(<<3, 10>>),
                 FSub(FloatOf(<<1, 1>>), FloatOf(<<length - 200, 800>>)))
       ELSE FloatOf(<<3, 10>>)

\* The exact value of 1 - (length - 200) / 800 and of the other cases,
\* which the double above is near to.
TextSpecificityExact(ext) ==
    LET length == Len(Get(ext, "text", <<>>))
    IN IF length = 0 THEN <<0, 1>>
       ELSE IF 10 <= length /\ length <= 200 THEN <<1, 1>>
       ELSE IF length < 10 THEN RNorm(<<length, 10>>)
       ELSE RMax(<<3, 10>>, RNorm(<<800 - (length - 200), 800>>))

standard_types == {"entity", "rule", "constraint", "event", "state", "relation"}

\* A plausible slip: an unknown type scored like a missing one.
CalcTypeConsistencyUnknownAsMissing(ext) ==
    IF TypeOf(ext) \in Typed(standard_types) THEN <<9, 10>> ELSE <<5, 10>>

CalcTypeConsistency(ext) ==
    LET ext_type == TypeOf(ext)
    IN IF ext_type = <<>> \/ ext_type = <<"">> THEN <<5, 10>>
       ELSE IF ext_type \in Typed(standard_types) THEN <<9, 10>>
       ELSE <<7, 10>>

\* The exact value of the weighted sum of _score, clamped: what the double
\* of _score is near to.
ExactScore(ext) ==
    RMin(<<1, 1>>,
         RMax(<<0, 1>>,
              RAdd(RAdd(RAdd(RMul(WEIGHTS.match_quality, MatchQuality(ext)),
                             RMul(WEIGHTS.attr_completeness, CalcAttrCompleteness(ext))),
                        RMul(WEIGHTS.text_specificity, TextSpecificityExact(ext))),
                   RMul(WEIGHTS.type_consistency, CalcTypeConsistency(ext)))))

\* x lies exactly halfway between two multiples of 1/1000
HalfWay(x) == 2 * ((x[1] * 1000) % x[2]) = x[2]

\* round(x, 3) for the double nearest to x >= 0: the nearest thousandth
\* of x, and for a halfway x the one nearest to the double.
Round3(x) ==
    LET q == (x[1] * 1000) \div x[2]
        r == (x[1] * 1000) % x[2]
    IN IF HalfWay(x) THEN FRoundTo(FloatOf(RNorm(x)), 1000)
       ELSE IF 2 * r > x[2] THEN <<q + 1, 1000>>
       ELSE <<q, 1000>>

\* The sub-scores as the doubles _score holds.
AttrCompletenessFloat(ext) == FloatOf(CalcAttrCompleteness(ext))

TextSpecificityFloat(ext) == AsDouble(CalcTextSpecificity(ext))

\* _score: the double it returns, the products summed from left to right,
\* then min(1.0, max(0.0, score)).
Score(ext) ==
    LET score ==
          FAdd(FAdd(FAdd(FMul(FloatOf(WEIGHTS.match_quality), FloatOf(MatchQuality(ext))),
                         FMul(FloatOf(WEIGHTS.attr_completeness), AttrCompletenessFloat(ext))),
                    FMul(FloatOf(WEIGHTS.text_specificity), TextSpecificityFloat(ext))),
               FMul(FloatOf(WEIGHTS.type_consistency), FloatOf(CalcTypeConsistency(ext))))
    IN FMin(FloatOf(<<1, 1>>), FMax(FZero, score))

\* round(score, 3).  The double differs from the exact score by far less
\* than an exact score that is not halfway lies from the nearest halfway
\* point, so the thousandth is that of the exact score, and the double is
\* computed for the halfway scores, where it decides.
RoundedScore(ext) ==
    IF HalfWay(ExactScore(ext)) THEN FRoundTo(Score(ext), 1000)
    ELSE Round3(ExactScore(ext))

\* A plausible slip: the confidence written into the item handed in.
ScorerProcessInPlace(h, exts) ==
    [heap |-> [o \in 1..Len(h) |->
                 IF o \in Range(exts)
                 THEN Put(h[o], "confidence", RoundedScore(h[o]))
                 ELSE h[o]],
     result |-> exts]

\* process: every item copied, the copy given its confidence.
ScorerProcess(h, exts) ==
    [heap |-> h \o [i \in 1..Len(exts) |->
                      Put(h[exts[i]], "confidence", RoundedScore(h[exts[i]]))],
     result |-> [i \in 1..Len(exts) |-> Len(h) + i]]

(***************************************************************************)
(* Scoring runs: one call of ConfidenceScorer.process on a list of items.  *)
(***************************************************************************)
MaxScoreItems == 3

\* source_location values: absent (<<>> stands for no key), without a match
\* type, with each tabulated match type and with one that is not tabulated
ScoreLocs ==
    {<<>>, [line |-> 1]} \cup
    {[line |-> 1, match_type |-> m] : m \in {"exact", "normalized", "fuzzy", "none", "regex"}}

\* attribute fields: none, an empty summary, and one to five populated
ScoreAttrs ==
    {<<>>,
     [summary_cn |-> <<>>],
     [summary_cn |-> <<"s">>],
     [reason |-> <<"r">>, consequence |-> <<"c">>],
     [reason |-> <<"r">>, consequence |-> <<"c">>, trigger_context |-> <<"t">>],
     [summary_cn |-> <<"s">>, trigger_context |-> <<"t">>, related_entities |-> <<"e">>],
     [summary_cn |-> <<"s">>, trigger_context |-> <<"t">>, consequence |-> <<"c">>,
      reason |-> <<"r">>, related_entities |-> <<"e">>]}

\* text lengths on both sides of every branch of _calc_text_specificity
ScoreLengths == {0, 5, 9, 10, 200, 201, 600, 760, 1200}

\* no type, and the types '', 'None', standard ones and another
ScoreTypes == {<<>>, <<"">>, <<"None">>, <<"entity">>, <<"relation">>, <<"skill">>}

\* a confidence already on the item, or none (-1)
PriorConfidences == {<<0 - 1, 1000>>, <<999, 1000>>}

Merge(f, g) == [k \in (DOMAIN f) \cup (DOMAIN g) |-> IF k \in DOMAIN f THEN f[k] ELSE g[k]]

MakeScoreItem(loc, attrs, length, type, prior) ==
    Merge(Merge(IF loc = <<>> THEN <<>> ELSE [source_location |-> loc],
                IF type = <<>> THEN <<>> ELSE [type |-> type[1]]),
          Merge(Merge([text |-> Rep("a", length)], attrs),
                IF prior[1] < 0 THEN <<>> ELSE [confidence |-> prior]))

\* Every combination; the exact score of some is halfway between two
\* multiples of 1/1000.
ScoreUniverse ==
    {MakeScoreItem(loc, attrs, length, type, prior) :
       loc \in ScoreLocs, attrs \in ScoreAttrs, length \in ScoreLengths,
       type \in ScoreTypes, prior \in PriorConfidences}

\* Items of the list runs.
ScoreListUniverse ==
    {[type |-> "entity", text |-> Rep("a", 10),
      source_location |-> [line |-> 1, match_type |-> "exact"], summary_cn |-> <<"s">>],
     [type |-> "skill", text |-> Rep("a", 5), confidence |-> <<999, 1000>>],
     [text |-> <<>>, source_location |-> [line |-> 1, match_type |-> "none"]],
     [type |-> "entity", text |-> Rep("a", 10),
      source_location |-> [line |-> 1, match_type |-> "exact"], summary_cn |-> <<"s">>,
      confidence |-> <<825, 1000>>]}

InitScoreOne == \E e \in ScoreUniverse : heap = <<e>>

InitScoreList == \E n \in 0..MaxScoreItems : heap \in [1..n -> ScoreListUniverse]

InitScore ==
    /\ grounder = NewGrounder(<<>>)
    /\ dedup = DefaultDedup
    /\ InitScoreOne \/ InitScoreList
    /\ extractions = [i \in 1..Len(heap) |-> i]
    /\ result = <<>>
    /\ pc = "ready"
    /\ walk = NoWalk
    /\ hist = NewHist(heap)
    /\ LaterStagesIdle

\* scorer.process(extractions)
ScoreAll ==
    /\ pc = "ready"
    /\ LET r == ScorerProcess(heap, extractions)
       IN /\ heap' = r.heap
          /\ result' = r.result
    /\ pc' = "scored"
    /\ UNCHANGED <<grounder, dedup, extractions, walk, hist>>
    /\ UNCHANGED <<config, resolver, injector, inferred_relations, kg_format>>
    /\ UNCHANGED <<source_file, stats, address>>

NextScore == ScoreAll

SpecScore == InitScore /\ [][NextScore]_vars

(***************************************************************************)
(* Properties of scoring.                                                  *)
(***************************************************************************)
\* The tables of the claim, in hundredths.
ClaimedMatchQuality(ext) ==
    LET loc == Get(ext, "source_location", <<>>)
        m == Get(loc, "match_type", "missing")
    IN CASE m = "exact" -> 100
         [] m = "normalized" -> 85
         [] m = "fuzzy" -> 60
         [] OTHER -> 10

ClaimedTypeConsistency(ext) ==
    IF "type" \notin DOMAIN ext \/ ext.type = "" THEN 50
    ELSE IF ext.type \in {"entity", "rule", "constraint", "event", "state", "relation"} THEN 90
    ELSE 70

ClaimedConfidence(ext) ==
    LET sum == RAdd(RAdd(<<35 * ClaimedMatchQuality(ext), 10000>>,
                         RMul(<<25, 100>>, CalcAttrCompleteness(ext))),
                    RAdd(RMul(<<20, 100>>, TextSpecificityExact(ext)),
                         <<20 * ClaimedTypeConsistency(ext), 10000>>))
        clamped == IF RLt(sum, <<0, 1>>) THEN <<0, 1>>
                   ELSE IF RLt(<<1, 1>>, sum) THEN <<1, 1>> ELSE sum
        float == FAdd(FAdd(FAdd(FMul(FloatOf(<<35, 100>>),
                                     FloatOf(<<ClaimedMatchQuality(ext), 100>>)),
                                FMul(FloatOf(<<25, 100>>), AttrCompletenessFloat(ext))),
                           FMul(FloatOf(<<20, 100>>), TextSpecificityFloat(ext))),
                      FMul(FloatOf(<<20, 100>>),
                           FloatOf(<<ClaimedTypeConsistency(ext), 100>>)))
    IN IF HalfWay(clamped)
       THEN FRoundTo(FMin(FloatOf(<<1, 1>>), FMax(FZero, float)), 1000)
       ELSE Round3(clamped)

\* C12: after process, the i-th output is a new item that carries
\* round(clamp01(0.35*match_quality + 0.25*attribute_completeness +
\* 0.20*text_specificity + 0.20*type_consistency), 3) as its confidence,
\* whatever confidence the input had, and equals the i-th input in every
\* other field; the items handed in are as they were.
C12_WeightedScore ==
    pc = "scored" =>
        /\ Len(result) = Len(extractions)
        /\ \A i \in 1..Len(extractions) :
              LET in == hist.heap0[extractions[i]]
                  out == heap[result[i]]
              IN /\ result[i] \notin 1..Len(hist.heap0)
                 /\ DOMAIN out = (DOMAIN in) \cup {"confidence"}
                 /\ out.confidence = ClaimedConfidence(in)
                 /\ \A k \in (DOMAIN in) \ {"confidence"} : out[k] = in[k]
        /\ \A o \in 1..Len(hist.heap0) : heap[o] = hist.heap0[o]

\* An item of an unknown type that already carried another confidence has
\* been scored.
C12_Witness ==
    /\ pc = "scored"
    /\ \E i \in 1..Len(extractions) :
          LET in == heap[extractions[i]]
          IN /\ "confidence" \in DOMAIN in
             /\ in.confidence # heap[result[i]].confidence
             /\ TypeOf(in) = <<"skill">>

\* An item whose exact score lies halfway between two multiples of 1/1000,
\* where the binary floating point sum decides the rounding, has been scored.
C12_WitnessHalfWay ==
    /\ pc = "scored"
    /\ \E i \in 1..Len(extractions) : HalfWay(ExactScore(hist.heap0[extractions[i]]))

(***************************************************************************)
(* EntityResolver (scripts/entity_resolver.py).                            *)
(***************************************************************************)
\* find_longest_match(alo, ahi, blo, bhi) of a matcher over a and b whose
\* popular elements are pop
FindLongestMatchIn(a, b, pop, alo, ahi, blo, bhi) ==
    LET sa == Slice(a, alo, ahi)
        sb == Slice(b, blo, bhi)
        m == ExtendRight(sa, sb, ExtendLeft(sa, sb, BestSeed(sa, sb, pop)))
    IN <<alo + m[1], blo + m[2], m[3]>>

\* The sum of the sizes of get_matching_blocks() within a[alo:ahi] and
\* b[blo:bhi]: the longest match, then the same to its left and to its right.
RECURSIVE MatchedIn(_, _, _, _, _, _, _)
MatchedIn(a, b, pop, alo, ahi, blo, bhi) ==
    LET m == FindLongestMatchIn(a, b, pop, alo, ahi, blo, bhi)
    IN IF m[3] = 0 THEN 0
       ELSE m[3]
            + (IF alo < m[1] /\ blo < m[2]
               THEN MatchedIn(a, b, pop, alo, m[1], blo, m[2]) ELSE 0)
            + (IF m[1] + m[3] < ahi /\ m[2] + m[3] < bhi
               THEN MatchedIn(a, b, pop, m[1] + m[3], ahi, m[2] + m[3], bhi) ELSE 0)

\* A plausible slip: only the longest matching block counted.
RatioLongestBlock(a, b) ==
    IF Len(a) + Len(b) = 0 THEN <<1, 1>>
    ELSE RNorm(<<2 * FindLongestMatchIn(a, b, Popular(b), 0, Len(a), 0, Len(b))[3],
                 Len(a) + Len(b)>>)

\* difflib.SequenceMatcher(None, a, b).ratio()
Ratio(a, b) ==
    IF Len(a) + Len(b) = 0 THEN <<1, 1>>
    ELSE RNorm(<<2 * MatchedIn(a, b, Popular(b), 0, Len(a), 0, Len(b)), Len(a) + Len(b)>>)

\* A plausible slip: the containment score without its 0.9 factor.
SimilarityPlainContainment(a, b) ==
    IF a = <<>> \/ b = <<>> THEN <<0, 1>>
    ELSE IF a = b THEN <<1, 1>>
    ELSE IF Find(b, a) # 0 - 1 \/ Find(a, b) # 0 - 1
    THEN RNorm(<<Min2(Len(a), Len(b)), Max2(Len(a), Len(b))>>)
    ELSE Ratio(a, b)

\* _similarity
Similarity(a, b) ==
    IF a = <<>> \/ b = <<>> THEN <<0, 1>>
    ELSE IF a = b THEN <<1, 1>>
    ELSE IF Find(b, a) # 0 - 1 \/ Find(a, b) # 0 - 1
    THEN FMul(FloatOf(<<9, 10>>), FloatOf(<<Min2(Len(a), Len(b)), Max2(Len(a), Len(b))>>))
    ELSE Ratio(a, b)

\* self._similarity(a, b) >= threshold.  The score of a containment is
\* the double 0.9 * (shorter / longer), which can lie below its exact value
\* 9 * shorter / (10 * longer): the double is compared when the exact value
\* is the threshold, and otherwise the exact value, which lies much further
\* from the threshold than the double from it, decides.  Every other score
\* is the double nearest to its exact value.
SimilarityAtLeast(a, b, threshold) ==
    \E x \in {a}, y \in {b} :
        IF /\ x # <<>> /\ y # <<>> /\ x # y
           /\ (Find(y, x) # 0 - 1 \/ Find(x, y) # 0 - 1)
        THEN IF 9 * Min2(Len(x), Len(y)) * threshold[2]
                   = 10 * Max2(Len(x), Len(y)) * threshold[1]
             THEN FLe(FloatOf(threshold), Similarity(x, y))
             ELSE RLe(threshold, <<9 * Min2(Len(x), Len(y)), 10 * Max2(Len(x), Len(y))>>)
        ELSE RLe(threshold, Similarity(x, y))

\* e.get('text', '') and e.get('text'): None is no string
NameOf(e) == Get(e, "text", <<>>)

NoText == <<"None">>

TextOrNone(e) == Get(e, "text", NoText)

\* A plausible slip: the entities taken by earlier clusters not skipped.
ClusterOfIgnoringAssigned(r, h, entities, i, assigned) ==
    <<i>> \o
    SelectSeq([j \in 1..Len(entities) |-> j],
              LAMBDA j : /\ j > i
                         /\ SimilarityAtLeast(NameOf(h[entities[i]]),
                                              NameOf(h[entities[j]]), r.threshold))

\* The cluster seeded by the i-th entity, as positions in the entity list:
\* the seed, then every later entity not yet assigned whose name is similar
\* enough to the seed's, in list order.
ClusterOf(r, h, entities, i, assigned) ==
    <<i>> \o
    SelectSeq([j \in 1..Len(entities) |-> j],
              LAMBDA j : /\ j > i
                         /\ j \notin assigned
                         /\ SimilarityAtLeast(NameOf(h[entities[i]]),
                                              NameOf(h[entities[j]]), r.threshold))

RECURSIVE ClusterFrom(_, _, _, _, _)
ClusterFrom(r, h, entities, i, assigned) ==
    IF i > Len(entities) THEN <<>>
    ELSE IF i \in assigned THEN ClusterFrom(r, h, entities, i + 1, assigned)
    ELSE CHOOSE clusters \in
            {<<[k \in 1..Len(c) |-> entities[c[k]]]>> \o
             ClusterFrom(r, h, entities, i + 1, assigned \cup Range(c)) :
               c \in {ClusterOf(r, h, entities, i, assigned)}} : TRUE

\* _cluster: a list of clusters, each a list of items
Cluster(r, h, entities) == ClusterFrom(r, h, entities, 1, {})

\* _canonical_score and the order of its tuples
CanonicalScore(name) == <<IF " " \in Range(name) THEN 0 ELSE 1, Len(name)>>

ScoreGe(x, y) == x[1] > y[1] \/ (x[1] = y[1] /\ x[2] >= y[2])

\* A plausible slip: on equal scores the last member of the cluster.
CanonicalLast(h, cluster) ==
    LET best == {k \in 1..Len(cluster) :
                   \A l \in 1..Len(cluster) :
                      ScoreGe(CanonicalScore(NameOf(h[cluster[k]])),
                              CanonicalScore(NameOf(h[cluster[l]])))}
    IN cluster[CHOOSE k \in best : \A l \in best : l <= k]

\* max(cluster, key = canonical score): the first member of maximal score
Canonical(h, cluster) ==
    LET best == {k \in 1..Len(cluster) :
                   \A l \in 1..Len(cluster) :
                      ScoreGe(CanonicalScore(NameOf(h[cluster[k]])),
                              CanonicalScore(NameOf(h[cluster[l]])))}
    IN cluster[CHOOSE k \in best : \A l \in best : k <= l]

\* The names of a cluster's members other than its canonical name.
AliasesOf(h, cluster) ==
    {NameOf(h[e]) : e \in Range(cluster)} \ {NameOf(h[Canonical(h, cluster)])}

\* A plausible slip: every member's name mapped to the name of the
\* cluster's first member.
BuildAliasMapToSeed(h, clusters) ==
    [name \in UNION {{NameOf(h[e]) : e \in Range(clusters[c])} \ {NameOf(h[clusters[c][1]])} :
                        c \in 1..Len(clusters)} |->
       LET last == CHOOSE c \in 1..Len(clusters) :
                      /\ \E e \in Range(clusters[c]) : NameOf(h[e]) = name
                      /\ \A d \in 1..Len(clusters) :
                            (\E e \in Range(clusters[d]) : NameOf(h[e]) = name) => d <= c
       IN NameOf(h[clusters[last][1]])]

\* _build_alias_map: a name set by several clusters keeps the last one's
BuildAliasMap(h, clusters) ==
    [name \in UNION {AliasesOf(h, clusters[c]) : c \in 1..Len(clusters)} |->
       LET last == CHOOSE c \in 1..Len(clusters) :
                      /\ name \in AliasesOf(h, clusters[c])
                      /\ \A d \in 1..Len(clusters) :
                            name \in AliasesOf(h, clusters[d]) => d <= c
       IN NameOf(h[Canonical(h, clusters[last])])]

\* A plausible slip: a relation rebuilt from its endpoints and types only.
RewrittenBare(ext, alias_map) ==
    IF TypeOf(ext) = <<"relation">>
    THEN [k \in (DOMAIN ext) \cap {"type", "from", "to", "relation_type"} |->
            IF k \in {"from", "to"} /\ ext[k] \in DOMAIN alias_map
            THEN alias_map[ext[k]] ELSE ext[k]]
    ELSE ext

\* A plausible slip: the from endpoint rewritten, the to endpoint forgotten.
RewrittenFromOnly(ext, alias_map) ==
    IF TypeOf(ext) = <<"relation">>
    THEN IF "from" \in DOMAIN ext /\ ext.from \in DOMAIN alias_map
         THEN Put(ext, "from", alias_map[ext.from]) ELSE ext
    ELSE ext

\* A plausible slip: the endpoints rewritten whatever the item's type.
RewrittenAnyType(ext, alias_map) ==
    LET f == IF "from" \in DOMAIN ext /\ ext.from \in DOMAIN alias_map
             THEN Put(ext, "from", alias_map[ext.from]) ELSE ext
    IN IF "to" \in DOMAIN ext /\ ext.to \in DOMAIN alias_map
       THEN Put(f, "to", alias_map[ext.to]) ELSE f

\* The copy _rewrite_references makes of one item.
Rewritten(ext, alias_map) ==
    IF TypeOf(ext) = <<"relation">>
    THEN LET f == IF "from" \in DOMAIN ext /\ ext.from \in DOMAIN alias_map
                  THEN Put(ext, "from", alias_map[ext.from]) ELSE ext
         IN IF "to" \in DOMAIN ext /\ ext.to \in DOMAIN alias_map
            THEN Put(f, "to", alias_map[ext.to]) ELSE f
    ELSE ext

\* _rewrite_references: the heap with the copies, and the list of copies
RewriteReferences(h, exts, alias_map) ==
    [heap |-> h \o [i \in 1..Len(exts) |-> Rewritten(h[exts[i]], alias_map)],
     result |-> [i \in 1..Len(exts) |-> Len(h) + i]]

\* process, from the clusters on
ResolveClusters(h, exts, clusters) ==
    LET alias_map == BuildAliasMap(h, clusters)
        merged_entities == [c \in 1..Len(clusters) |-> Canonical(h, clusters[c])]
        updated == RewriteReferences(h, exts, alias_map)
        canonical_names == {TextOrNone(h[e]) : e \in Range(merged_entities)}
    IN [heap |-> updated.heap,
        result |-> SelectSeq(updated.result,
                             LAMBDA o : \/ TypeOf(updated.heap[o]) # <<"entity">>
                                        \/ TextOrNone(updated.heap[o]) \in canonical_names)]

\* process
ResolverProcess(r, h, exts) ==
    LET entities == SelectSeq(exts, LAMBDA e : TypeOf(h[e]) = <<"entity">>)
    IN IF Len(entities) <= 1 THEN [heap |-> h, result |-> exts]
       ELSE CHOOSE out \in {ResolveClusters(h, exts, clusters) :
                              clusters \in {Cluster(r, h, entities)}} : TRUE

(***************************************************************************)
(* Similarity runs: _similarity applied to two names, both ways.           *)
(***************************************************************************)
MaxNameLen == 4

\* The names of the module's own example.
MLevel == <<"M", "L", "e", "v", "e", "l">>

MMultiGateLevel ==
    <<"M", "M", "u", "l", "t", "i", "G", "a", "t", "e", "L", "e", "v", "e", "l">>

MGLevel == <<"M", "G", "L", "e", "v", "e", "l">>

Actor == <<"A", "c", "t", "o", "r">>

\* Four of the five characters of Actor: the double 0.9 * (4 / 5) is not
\* the one nearest to 0.72.
Acto == <<"A", "c", "t", "o">>

SimNames ==
    StrsUpTo({"a", "b"}, MaxNameLen) \cup {MLevel, MMultiGateLevel, MGLevel, Actor, Acto}

InitSimilarity ==
    /\ grounder = NewGrounder(<<>>)
    /\ dedup = DefaultDedup
    /\ \E a \in SimNames, b \in SimNames :
          heap = <<[type |-> "entity", text |-> a], [type |-> "entity", text |-> b]>>
    /\ extractions = <<1, 2>>
    /\ result = <<>>
    /\ pc = "ready"
    /\ walk = NoWalk
    /\ hist = NewHist(heap)
    /\ LaterStagesIdle

\* _similarity(a, b) and _similarity(b, a)
Compare ==
    /\ pc = "ready"
    /\ result' = <<Similarity(NameOf(heap[1]), NameOf(heap[2])),
                   Similarity(NameOf(heap[2]), NameOf(heap[1]))>>
    /\ pc' = "compared"
    /\ UNCHANGED <<grounder, dedup, heap, extractions, walk, hist>>
    /\ UNCHANGED <<config, resolver, injector, inferred_relations, kg_format>>
    /\ UNCHANGED <<source_file, stats, address>>

NextSimilarity == Compare

SpecSimilarity == InitSimilarity /\ [][NextSimilarity]_vars

(***************************************************************************)
(* Properties of the similarity.                                           *)
(***************************************************************************)
ProperSubstring(a, b) == a # b /\ Find(b, a) # 0 - 1

\* The common elements of a and b counted as the matching blocks do: the
\* longest common run, first in a and then first in b among the longest,
\* then the same on the parts left of it and the parts right of it.
RECURSIVE CommonCount(_, _)
CommonCount(a, b) ==
    LET runs == {m \in (1..Len(a)) \X (1..Len(b)) \X (1..Len(a)) :
                   /\ m[1] + m[3] - 1 <= Len(a)
                   /\ m[2] + m[3] - 1 <= Len(b)
                   /\ SubSeq(a, m[1], m[1] + m[3] - 1) = SubSeq(b, m[2], m[2] + m[3] - 1)}
    IN IF runs = {} THEN 0
       ELSE LET m == CHOOSE x \in runs :
                        \A y \in runs :
                           \/ x[3] > y[3]
                           \/ x[3] = y[3] /\ x[1] < y[1]
                           \/ x[3] = y[3] /\ x[1] = y[1] /\ x[2] <= y[2]
            IN m[3] + CommonCount(SubSeq(a, 1, m[1] - 1), SubSeq(b, 1, m[2] - 1))
                    + CommonCount(SubSeq(a, m[1] + m[3], Len(a)),
                                  SubSeq(b, m[2] + m[3], Len(b)))

EditRatio(a, b) == <<2 * CommonCount(a, b), Len(a) + Len(b)>>

\* 0 <= x <= 1 for a float x of either form
InUnit(x) == FLe(FZero, AsDouble(x)) /\ FLe(AsDouble(x), FloatOf(<<1, 1>>))

\* The value the claim gives for the similarity of a and b.
ClaimedSimilarity(a, b) ==
    IF a = b THEN <<1, 1>>
    ELSE IF ProperSubstring(a, b) \/ ProperSubstring(b, a)
    THEN FMul(FloatOf(<<9, 10>>), FloatOf(<<Min2(Len(a), Len(b)), Max2(Len(a), Len(b))>>))
    ELSE EditRatio(a, b)

\* C17: the similarity of two names is the same in both directions, lies in
\* [0, 1], is 1 for identical names, 0.9 * shorter/longer when one is a
\* proper substring of the other, and the matching-blocks ratio otherwise.
C17_Similarity ==
    pc = "compared" =>
        LET a == NameOf(heap[1])
            b == NameOf(heap[2])
        IN /\ AsDouble(result[1]) = AsDouble(result[2])
           /\ InUnit(result[1])
           /\ AsDouble(result[1]) = AsDouble(ClaimedSimilarity(a, b))

\* What does hold: the value is in [0, 1] and, for two non-empty names, is
\* the claimed one in the direction it was asked for.
C17_SimilarityOneWay ==
    pc = "compared" =>
        LET a == NameOf(heap[1])
            b == NameOf(heap[2])
        IN /\ InUnit(result[1])
           /\ a # <<>> /\ b # <<>> => AsDouble(result[1]) = AsDouble(ClaimedSimilarity(a, b))
           /\ a = <<>> \/ b = <<>> => AsDouble(result[1]) = FZero

\* The two directions differ.
C17_Asymmetric == pc = "compared" /\ AsDouble(result[1]) # AsDouble(result[2])

\* Two empty names compared.
C17_EmptyNames == pc = "compared" /\ NameOf(heap[1]) = <<>> /\ NameOf(heap[2]) = <<>>

(***************************************************************************)
(* Resolution runs: a resolver with a threshold, one call of process on a  *)
(* list of items and a second call on what the first returned.             *)
(***************************************************************************)
MaxResolveItems == 4

\* Entities whose names are similar in a chain (ab, abc, abcd), tie on the
\* canonical score (abc, abd), differ by a space (ab, a b) or are equal (ab
\* twice); relations whose from and whose to are such names, of entities
\* that are in the list or not; and an item that is no relation but has an
\* endpoint field.
ResolveUniverse ==
    {[type |-> "entity", text |-> <<"a", "b">>],
     [type |-> "entity", text |-> <<"a", "b", "c">>],
     [type |-> "entity", text |-> <<"a", "b", "c", "d">>],
     [type |-> "entity", text |-> <<"a", "b", "d">>],
     [type |-> "entity", text |-> <<"a", " ", "b">>],
     [type |-> "entity", text |-> <<"a", "b">>, summary_cn |-> <<"s">>],
     [type |-> "relation", from |-> <<"a", "b">>, to |-> <<"a", "b", "c", "d">>,
      relation_type |-> "uses"],
     [type |-> "relation", from |-> <<"a", "b", "d">>, to |-> <<"a", "b">>],
     [type |-> "rule", text |-> <<"a", "b">>, from |-> <<"a", "b">>]}

ResolveThresholds == {<<1, 2>>, <<7, 10>>}

\* The batch of the module's own example.
ResolverExample ==
    <<[type |-> "entity", text |-> MLevel, summary_cn |-> <<"1">>],
      [type |-> "entity", text |-> MMultiGateLevel, summary_cn |-> <<"2">>],
      [type |-> "entity", text |-> MGLevel, summary_cn |-> <<"3">>],
      [type |-> "entity", text |-> Actor, summary_cn |-> <<"4">>],
      [type |-> "relation", from |-> MGLevel, to |-> Actor, relation_type |-> "contains"],
      [type |-> "relation", from |-> MLevel, to |-> Actor, relation_type |-> "manages"]>>

InitResolveList ==
    /\ \E t \in ResolveThresholds : resolver = NewResolver(t)
    /\ \E n \in 0..MaxResolveItems : heap \in [1..n -> ResolveUniverse]

InitResolveExample ==
    /\ resolver = NewResolver(<<7, 10>>)
    /\ heap = ResolverExample

\* Two names, one inside the other, of 8 and 9 characters, at the
\* threshold 0.8: the exact score 0.9 * 8 / 9 is the threshold, the double
\* the code computes is the one below it.
RoundingExample ==
    <<[type |-> "entity", text |-> <<"a", "b", "c", "d", "e", "f", "g", "h">>],
      [type |-> "entity", text |-> <<"a", "b", "c", "d", "e", "f", "g", "h", "i">>],
      [type |-> "relation", from |-> <<"a", "b", "c", "d", "e", "f", "g", "h", "i">>,
       to |-> <<"a", "b", "c", "d", "e", "f", "g", "h">>]>>

InitResolveRounding ==
    /\ resolver = NewResolver(<<4, 5>>)
    /\ heap \in {RoundingExample, SubSeq(RoundingExample, 1, 2)}

InitResolve ==
    /\ grounder = NewGrounder(<<>>)
    /\ dedup = DefaultDedup
    /\ InitResolveList \/ InitResolveExample \/ InitResolveRounding
    /\ extractions = [i \in 1..Len(heap) |-> i]
    /\ result = <<>>
    /\ pc = "ready"
    /\ walk = NoWalk
    /\ hist = NewHist(heap)
    /\ config = DEFAULT_CONFIG
    /\ injector = NewInjector(DEFAULT_CONFIG.confidence_threshold)
    /\ inferred_relations = <<>>
    /\ kg_format = <<>>
    /\ source_file = <<>>
    /\ stats = <<>>
    /\ address = NoAddresses

\* resolver.process(extractions)
Resolve ==
    /\ pc = "ready"
    /\ \E r \in {ResolverProcess(resolver, heap, extractions)} :
          /\ heap' = r.heap
          /\ result' = r.result
    /\ pc' = "resolved"
    /\ UNCHANGED <<grounder, dedup, extractions, walk, hist>>
    /\ UNCHANGED <<config, resolver, injector, inferred_relations, kg_format>>
    /\ UNCHANGED <<source_file, stats, address>>

\* resolver.process(result): the list returned is resolved once more
ResolveAgain ==
    /\ pc = "resolved"
    /\ \E r \in {ResolverProcess(resolver, heap, result)} :
          /\ heap' = r.heap
          /\ result' = r.result
    /\ extractions' = result
    /\ pc' = "again"
    /\ UNCHANGED <<grounder, dedup, walk, hist>>
    /\ UNCHANGED <<config, resolver, injector, inferred_relations, kg_format>>
    /\ UNCHANGED <<source_file, stats, address>>

NextResolve == Resolve \/ ResolveAgain

SpecResolve == InitResolve /\ [][NextResolve]_vars

(***************************************************************************)
(* Properties of entity resolution.                                        *)
(***************************************************************************)
\* The items of a list, and its entity items, by content.
Contents(h, l) == [i \in 1..Len(l) |-> h[l[i]]]

EntitiesOf(h, l) == SelectSeq(l, LAMBDA e : TypeOf(h[e]) = <<"entity">>)

\* C13: resolving the output of a resolution again gives the same items:
\* no entity is merged and no endpoint is rewritten by the second run.
C13_Idempotent ==
    pc = "again" =>
        /\ Contents(heap, EntitiesOf(heap, result)) = Contents(heap, EntitiesOf(heap, extractions))
        /\ Contents(heap, result) = Contents(heap, extractions)

\* C14: of a batch with two or more entities, as many entity items are
\* returned as there are clusters.
C14_OnePerCluster ==
    pc = "resolved" =>
        LET entities == EntitiesOf(hist.heap0, extractions)
        IN Len(entities) >= 2 =>
              Len(EntitiesOf(heap, result)) = Len(Cluster(resolver, hist.heap0, entities))

\* b is a except, when a is a relation, possibly for its endpoints.
SameButEndpoints(a, b) ==
    /\ DOMAIN b = DOMAIN a
    /\ \A k \in DOMAIN a :
          (TypeOf(a) = <<"relation">> /\ k \in {"from", "to"}) \/ b[k] = a[k]

\* The k-th element of a set of positions.
Nth(S, k) == CHOOSE p \in S : Cardinality({q \in S : q <= p}) = k

\* C15: with two or more entities, the output is the input with some entity
\* items left out: every non-entity item is there once, the order is the
\* input's, and each item equals its input except possibly for the endpoints
\* of a relation.  With at most one entity the list handed in is returned.
C15_NonEntitiesPreserved ==
    pc = "resolved" =>
        IF Len(EntitiesOf(hist.heap0, extractions)) <= 1
        THEN result = extractions /\ heap = hist.heap0
        ELSE \E S \in SUBSET (1..Len(extractions)) :
                /\ Cardinality(S) = Len(result)
                /\ \A p \in 1..Len(extractions) :
                      TypeOf(hist.heap0[extractions[p]]) # <<"entity">> => p \in S
                /\ \A k \in 1..Len(result) :
                      SameButEndpoints(hist.heap0[extractions[Nth(S, k)]], heap[result[k]])

\* A batch with an entity merged away and a relation came through.
C15_Witness ==
    /\ pc = "resolved"
    /\ Len(result) < Len(extractions)
    /\ \E k \in 1..Len(result) : TypeOf(heap[result[k]]) = <<"relation">>
    /\ \E k \in 1..Len(result) : TypeOf(heap[result[k]]) = <<"rule">>

\* At most one entity: the list itself came back.
C15_WitnessSame ==
    /\ pc = "resolved"
    /\ Len(extractions) >= 2
    /\ result = extractions

\* The canonical name of a cluster as the claim gives it: the name of the
\* first member, in cluster order, whose (no space, length) is maximal.
ClaimedCanonicalName(h, cluster) ==
    LET key(e) == <<IF \E i \in 1..Len(h[e].text) : h[e].text[i] = " " THEN 0 ELSE 1,
                    Len(h[e].text)>>
        greater(x, y) == x[1] > y[1] \/ (x[1] = y[1] /\ x[2] > y[2])
        first == CHOOSE k \in 1..Len(cluster) :
                    /\ \A l \in 1..Len(cluster) : ~greater(key(cluster[l]), key(cluster[k]))
                    /\ \A l \in 1..(k - 1) : greater(key(cluster[k]), key(cluster[l]))
    IN h[cluster[first]].text

\* The endpoint the claim gives a relation whose endpoint was name.
ClaimedEndpoints(h, clusters, name) ==
    LET owners == {c \in 1..Len(clusters) :
                     /\ \E e \in Range(clusters[c]) : h[e].text = name
                     /\ name # ClaimedCanonicalName(h, clusters[c])}
    IN IF owners = {} THEN {name}
       ELSE {ClaimedCanonicalName(h, clusters[c]) : c \in owners}

\* C16: with two or more entities, the i-th item returned before filtering
\* is a new item; a relation's endpoint that names a non-canonical member of
\* a cluster has become that cluster's canonical name, every other endpoint
\* and every other field of every item is as in the input, and the items
\* handed in are as they were.  The entities kept are those that carry a
\* canonical name.
C16_CanonicalRewrite ==
    (pc = "resolved" /\ Len(EntitiesOf(hist.heap0, extractions)) >= 2) =>
        LET h0 == hist.heap0
            clusters == Cluster(resolver, h0, EntitiesOf(h0, extractions))
            names == {ClaimedCanonicalName(h0, clusters[c]) : c \in 1..Len(clusters)}
        IN /\ \A o \in 1..Len(h0) : heap[o] = h0[o]
           /\ Len(heap) = Len(h0) + Len(extractions)
           /\ \A i \in 1..Len(extractions) :
                 LET in == h0[extractions[i]]
                     out == heap[Len(h0) + i]
                 IN /\ DOMAIN out = DOMAIN in
                    /\ \A k \in DOMAIN in :
                          IF TypeOf(in) = <<"relation">> /\ k \in {"from", "to"}
                          THEN out[k] \in ClaimedEndpoints(h0, clusters, in[k])
                          ELSE out[k] = in[k]
           /\ \A k \in 1..Len(result) :
                 /\ result[k] > Len(h0)
                 /\ TypeOf(heap[result[k]]) = <<"entity">> => heap[result[k]].text \in names
           /\ \A n \in names : \E k \in 1..Len(result) :
                 TypeOf(heap[result[k]]) = <<"entity">> /\ heap[result[k]].text = n

\* Three entities were merged under the first of two names that tie on the
\* canonical score, and a relation had both its from, one of the tying
\* names, and its to, the shortest name, rewritten to it.
C16_Witness ==
    /\ pc = "resolved"
    /\ Len(heap) = Len(hist.heap0) + Len(extractions)
    /\ \E i \in 1..Len(extractions) :
          /\ TypeOf(heap[extractions[i]]) = <<"relation">>
          /\ heap[extractions[i]].from = <<"a", "b", "d">>
          /\ heap[Len(hist.heap0) + i].from = <<"a", "b", "c">>
          /\ heap[extractions[i]].to = <<"a", "b">>
          /\ heap[Len(hist.heap0) + i].to = <<"a", "b", "c">>
    /\ \A k \in 1..Len(result) :
          TypeOf(heap[result[k]]) = <<"entity">> => heap[result[k]].text = <<"a", "b", "c">>

\* A relation's to was rewritten while its from, no entity's name, was
\* left, and an item that is no relation kept an endpoint field that names
\* the merged entity.
C16_WitnessToAlone ==
    /\ pc = "resolved"
    /\ Len(heap) = Len(hist.heap0) + Len(extractions)
    /\ \E j \in 1..Len(extractions) :
          /\ TypeOf(heap[extractions[j]]) = <<"rule">>
          /\ heap[Len(hist.heap0) + j].from = <<"a", "b">>
    /\ \E i \in 1..Len(extractions) :
          /\ TypeOf(heap[extractions[i]]) = <<"relation">>
          /\ heap[extractions[i]].from = <<"a", "b", "d">>
          /\ heap[Len(hist.heap0) + i].from = <<"a", "b", "d">>
          /\ heap[extractions[i]].to = <<"a", "b">>
          /\ heap[Len(hist.heap0) + i].to = <<"a", "b", "c">>
    /\ \E e \in Range(extractions) :
          TypeOf(hist.heap0[e]) = <<"entity">> /\ hist.heap0[e].text = <<"a", "b">>

\* A relation's from was rewritten while its to, a canonical name, was
\* left.
C16_WitnessFromAlone ==
    /\ pc = "resolved"
    /\ Len(heap) = Len(hist.heap0) + Len(extractions)
    /\ \E i \in 1..Len(extractions) :
          /\ TypeOf(heap[extractions[i]]) = <<"relation">>
          /\ heap[extractions[i]].from = <<"a", "b">>
          /\ heap[Len(hist.heap0) + i].from = <<"a", "b", "c", "d">>
          /\ heap[Len(hist.heap0) + i].to = <<"a", "b", "c", "d">>
    /\ \E e \in Range(result) :
          TypeOf(heap[e]) = <<"entity">> /\ heap[e].text = <<"a", "b", "c", "d">>

C16_WitnessSpace ==
    /\ pc = "resolved"
    /\ \E i \in 1..Len(extractions), j \in 1..Len(extractions) :
          /\ i < j
          /\ heap[extractions[i]] = [type |-> "entity", text |-> <<"a", " ", "b">>]
          /\ heap[extractions[j]].type = "entity"
          /\ heap[extractions[j]].text = <<"a", "b">>
    /\ \A k \in 1..Len(result) :
          TypeOf(heap[result[k]]) = <<"entity">> => heap[result[k]].text = <<"a", "b">>
    /\ Len(heap) > Len(hist.heap0)

\* What the example batch resolves to at threshold 0.7: MLevel and MGLevel
\* are one entity named MGLevel, MMultiGateLevel and Actor stay, and the
\* relation that started at MLevel starts at MGLevel.
ExampleOutcome ==
    /\ Contents(heap, EntitiesOf(heap, result)) =
          <<ResolverExample[2], ResolverExample[3], ResolverExample[4]>>
    /\ Len(Cluster(resolver, hist.heap0, <<1, 2, 3, 4>>)) = 3
    /\ \A c \in Range(Cluster(resolver, hist.heap0, <<1, 2, 3, 4>>)) : ~({1, 2} \subseteq Range(c))
    /\ Range(Cluster(resolver, hist.heap0, <<1, 2, 3, 4>>)[1]) = {1, 3}
    /\ Len(result) = 5
    /\ heap[result[4]] = ResolverExample[5]
    /\ heap[result[5]] = [ResolverExample[6] EXCEPT !.from = MGLevel]

ExampleResolved ==
    /\ pc = "resolved"
    /\ hist.heap0 = ResolverExample
    /\ resolver.threshold = <<7, 10>>

\* C18: at threshold 0.7 MLevel and MMultiGateLevel are not merged, their
\* similarity being the containment score 0.9 * 6/15; MLevel and MGLevel are
\* merged under the name MGLevel and a relation from MLevel is rewritten to
\* start at MGLevel.
C18_Example ==
    ExampleResolved =>
        /\ REq(Similarity(MLevel, MMultiGateLevel), <<9 * 6, 10 * 15>>)
        /\ ExampleOutcome

\* C18 as it holds: MLevel is not a substring of MMultiGateLevel, so their
\* similarity is the matching-blocks ratio 2 * 6 / 21 (about 0.57), still
\* below 0.7; the rest as claimed.
C18_ExampleEditRatio ==
    ExampleResolved =>
        /\ Find(MMultiGateLevel, MLevel) = 0 - 1
        /\ REq(Similarity(MLevel, MMultiGateLevel), <<2 * 6, 6 + 15>>)
        /\ RLt(Similarity(MLevel, MMultiGateLevel), resolver.threshold)
        /\ RLe(resolver.threshold, Similarity(MLevel, MGLevel))
        /\ ExampleOutcome

C18_Witness == ExampleResolved /\ Len(result) = 5

(***************************************************************************)
(* RelationInferrer (scripts/relation_inferrer.py).                        *)
(***************************************************************************)
HR_RELATION_RULES ==
    [experience |-> <<"worked_at", "company">>,
     education |-> <<"studied_at", "school">>,
     skill |-> <<"has_skill", "name">>,
     certification |-> <<"certified_by", "name">>]

\* _get_target_name
GetTargetName(extraction, field) ==
    LET attrs == Get(extraction, "attributes", <<>>)
        name == Get(attrs, field, <<>>)
    IN IF Truthy(name) THEN name
       ELSE Get(extraction, "summary_cn", Get(extraction, "text", <<>>))

\* A plausible slip: the sub-item's confidence taken over as it is.
ComputeConfidenceNoDecay(extraction) ==
    Round3(Get(extraction, "confidence", <<7, 10>>))

\* _compute_confidence
ComputeConfidence(extraction) ==
    LET ext_confidence == Get(extraction, "confidence", <<7, 10>>)
        product == RMul(ext_confidence, <<85, 100>>)
    IN IF HalfWay(product)
       THEN FRoundTo(FMul(FloatOf(ext_confidence), FloatOf(<<85, 100>>)), 1000)
       ELSE Round3(product)

\* The relation _infer_for_candidate appends for one item of a rule type.
InferredRelation(candidate_id, ext) ==
    LET rule == HR_RELATION_RULES[Get(ext, "type", "")]
    IN [from |-> candidate_id,
        to |-> Get(ext, "id", <<>>),
        type |-> rule[1],
        target_name |-> GetTargetName(ext, rule[2]),
        scope |-> "resume",
        confidence |-> ComputeConfidence(ext),
        inferred |-> TRUE]

\* _infer_for_candidate: the relations of one candidate, as dicts
InferForCandidate(h, candidate_id, exts) ==
    LET subs == SelectSeq(exts, LAMBDA e : Get(h[e], "type", "") \in DOMAIN HR_RELATION_RULES)
    IN [k \in 1..Len(subs) |-> InferredRelation(candidate_id, h[subs[k]])]

RECURSIVE Flatten(_)
Flatten(ss) == IF ss = <<>> THEN <<>> ELSE Head(ss) \o Flatten(Tail(ss))

\* process: the list handed in, and the inferred relations as new objects
InferrerProcess(h, exts) ==
    LET candidates == SelectSeq(exts, LAMBDA e : TypeOf(h[e]) = <<"candidate">>)
        relations == Flatten([c \in 1..Len(candidates) |->
                                InferForCandidate(h, Get(h[candidates[c]], "id", <<>>), exts)])
    IN [heap |-> h \o relations,
        result |-> exts,
        relations |-> [k \in 1..Len(relations) |-> Len(h) + k]]

(***************************************************************************)
(* Inference runs: one call of RelationInferrer.process on a list.         *)
(***************************************************************************)
MaxInferItems == 4

\* Candidates with and without an id; items of rule types with and without
\* a confidence, an id, a summary (one has an empty summary) and the
\* attribute its rule names; items of other types.
InferUniverse ==
    {[type |-> "candidate", id |-> <<"1">>, text |-> <<"c">>],
     [type |-> "candidate", text |-> <<"d">>, confidence |-> <<9, 10>>],
     [type |-> "experience", id |-> <<"2">>, text |-> <<"x">>,
      attributes |-> [company |-> <<"k">>], confidence |-> <<9, 10>>],
     [type |-> "education", id |-> <<"3">>, text |-> <<"e">>, summary_cn |-> <<"s">>],
     [type |-> "skill", id |-> <<"4">>, text |-> <<"p">>,
      attributes |-> [name |-> <<>>], confidence |-> <<1, 1>>],
     [type |-> "certification", text |-> <<"t">>, confidence |-> <<0, 1>>],
     [type |-> "skill", id |-> <<"5">>, text |-> <<"q">>, confidence |-> <<3, 4>>],
     [type |-> "entity", id |-> <<"6">>, text |-> <<"a", "b">>, confidence |-> <<9, 10>>],
     [id |-> <<"7">>, text |-> <<"n">>],
     [type |-> "education", id |-> <<"8">>, text |-> <<"w">>, summary_cn |-> <<>>,
      attributes |-> [company |-> <<"k">>]]}

InitInfer ==
    /\ grounder = NewGrounder(<<>>)
    /\ dedup = DefaultDedup
    /\ \E n \in 0..MaxInferItems : heap \in [1..n -> InferUniverse]
    /\ extractions = [i \in 1..Len(heap) |-> i]
    /\ result = <<>>
    /\ pc = "ready"
    /\ walk = NoWalk
    /\ hist = NewHist(heap)
    /\ LaterStagesIdle

\* extractions, inferred_relations = inferrer.process(extractions)
Infer ==
    /\ pc = "ready"
    /\ LET r == InferrerProcess(heap, extractions)
       IN /\ heap' = r.heap
          /\ result' = r.result
          /\ inferred_relations' = r.relations
    /\ pc' = "inferred"
    /\ UNCHANGED <<grounder, dedup, extractions, walk, hist>>
    /\ UNCHANGED <<config, resolver, injector, kg_format>>
    /\ UNCHANGED <<source_file, stats, address>>

NextInfer == Infer

SpecInfer == InitInfer /\ [][NextInfer]_vars

(***************************************************************************)
(* Properties of relation inference.                                       *)
(***************************************************************************)
\* The rule table of the claim.
ClaimedRelationType(t) ==
    CASE t = "experience" -> "worked_at"
      [] t = "education" -> "studied_at"
      [] t = "skill" -> "has_skill"
      [] t = "certification" -> "certified_by"

RuleTyped(h, l) ==
    SelectSeq(l, LAMBDA e : TypeOf(h[e]) \in Typed(DOMAIN HR_RELATION_RULES))

CandidatesOf(h, l) == SelectSeq(l, LAMBDA e : TypeOf(h[e]) = <<"candidate">>)

\* round(c * 0.85, 3), c given in thousandths: the thousandth nearest to
\* the product, and where the exact product is halfway between two, the
\* one nearest to the product of the doubles
ClaimedDecay(c) ==
    LET n == c[1] * (1000 \div c[2]) * 85
    IN IF n % 100 = 50
       THEN FRoundTo(FMul(FloatOf(c), FloatOf(<<85, 100>>)), 1000)
       ELSE <<(n + 50) \div 100, 1000>>

\* C19: one relation for every pair of a candidate and an item of a rule
\* type, candidates first and items second in input order; it runs from the
\* candidate's id to the item's id, has the rule's relation type, scope
\* "resume", inferred true, and as confidence 0.85 times the item's
\* confidence (0.7 if it has none) rounded to three places.  Without a
\* candidate there is none.  The list returned is the list handed in and no
\* item of it has changed.
C19_OnePerPair ==
    pc = "inferred" =>
        LET h0 == hist.heap0
            cands == CandidatesOf(h0, extractions)
            subs == RuleTyped(h0, extractions)
        IN /\ Len(inferred_relations) = Len(cands) * Len(subs)
           /\ cands = <<>> => inferred_relations = <<>>
           /\ \A c \in 1..Len(cands), s \in 1..Len(subs) :
                 LET rel == heap[inferred_relations[(c - 1) * Len(subs) + s]]
                     cand == h0[cands[c]]
                     sub == h0[subs[s]]
                 IN /\ rel.from = (IF "id" \in DOMAIN cand THEN cand.id ELSE <<>>)
                    /\ rel.to = (IF "id" \in DOMAIN sub THEN sub.id ELSE <<>>)
                    /\ rel.type = ClaimedRelationType(sub.type)
                    /\ rel.scope = "resume"
                    /\ rel.inferred = TRUE
                    /\ rel.confidence =
                          ClaimedDecay(IF "confidence" \in DOMAIN sub
                                       THEN sub.confidence ELSE <<7, 10>>)
           /\ result = extractions
           /\ \A o \in 1..Len(h0) : heap[o] = h0[o]
           /\ \A k \in 1..Len(inferred_relations) : inferred_relations[k] > Len(h0)

\* A relation was inferred for an item with the confidence 0.75: the exact
\* product 0.6375 is halfway, the product of the doubles is below it.
C19_WitnessRounding ==
    /\ pc = "inferred"
    /\ \E k \in 1..Len(inferred_relations) :
          /\ heap[inferred_relations[k]].to = <<"5">>
          /\ heap[inferred_relations[k]].confidence = <<637, 1000>>

\* Two candidates and two items of rule types, one of them without a
\* confidence: four relations.
C19_Witness ==
    /\ pc = "inferred"
    /\ Len(CandidatesOf(heap, extractions)) = 2
    /\ Len(inferred_relations) = 4
    /\ \E e \in Range(RuleTyped(heap, extractions)) : "confidence" \notin DOMAIN heap[e]
    /\ \E e \in Range(RuleTyped(heap, extractions)) : "confidence" \in DOMAIN heap[e]

\* No candidate, but items of rule types: nothing inferred.
C19_WitnessNoCandidate ==
    /\ pc = "inferred"
    /\ CandidatesOf(heap, extractions) = <<>>
    /\ RuleTyped(heap, extractions) # <<>>

(***************************************************************************)
(* KGInjector (scripts/kg_injector.py).                                    *)
(* An observation is the pair of the literal text it starts with and the   *)
(* value formatted after it.  A name made from id(ext) is the pair of its  *)
(* prefix and the object's identity.                                       *)
(***************************************************************************)
\* A plausible slip: an item exactly at the threshold left out.
HighConfidenceStrict(inj, ext) ==
    RLt(inj.confidence_threshold, Get(ext, "confidence", <<0, 1>>))

\* e.get('confidence', 0) >= self.confidence_threshold
HighConfidence(inj, ext) ==
    RLe(inj.confidence_threshold, Get(ext, "confidence", <<0, 1>>))

kg_entity_types == {"entity", "rule", "constraint", "event", "state"}

\* ' '.join(text.split()): no whitespace at either end, one space for
\* every run of whitespace between two other characters
Cleaned(text) ==
    LET keep(i) ==
           \/ ~IsSpace(text[i])
           \/ /\ i > 1 /\ ~IsSpace(text[i - 1])
              /\ \E j \in (i + 1)..Len(text) : ~IsSpace(text[j])
        idx == SelectSeq([i \in 1..Len(text) |-> i], keep)
    IN [k \in 1..Len(idx) |-> IF IsSpace(text[idx[k]]) THEN " " ELSE text[idx[k]]]

\* The item has neither a summary nor a text: _make_name reaches its last
\* return.
Nameless(ext) ==
    /\ ~Truthy(Get(ext, "summary_cn", <<>>))
    /\ ~Truthy(Get(ext, "text", <<>>))

\* _make_name for the object o, where id(ext) answers ids[o]
MakeName(h, o, ids) ==
    LET summary_cn == Get(h[o], "summary_cn", <<>>)
        text == Get(h[o], "text", <<>>)
    IN IF Truthy(summary_cn) THEN Slice(summary_cn, 0, 50)
       ELSE IF Truthy(text) THEN Slice(Cleaned(text), 0, 50)
       ELSE <<"Entity_", ids[o]>>

Unknown == <<"u", "n", "k", "n", "o", "w", "n">>

Observation(prefix, value) == <<prefix, value>>

\* f"{confidence:.2f}" of a confidence that is not below zero, as the
\* rational <<c, 100>> it denotes: the multiple of 1/100 nearest to the
\* double, the even one when the double is halfway.  The exact value
\* decides unless it is halfway itself.
Format2Plus(x) ==
    LET q == (x[1] * 100) \div x[2]
        r == (x[1] * 100) % x[2]
    IN IF Len(x) = 3 THEN FRoundTo(x, 100)
       ELSE IF 2 * r = x[2] THEN FRoundTo(FloatOf(RNorm(x)), 100)
       ELSE IF 2 * r > x[2] THEN <<q + 1, 100>>
       ELSE <<q, 100>>

\* f"{confidence:.2f}": the sign, then the digits of the absolute value;
\* <<"-", 0, 100>> is the text -0.00 of a negative confidence above -0.005.
Format2(x) ==
    IF Len(x) = 2 /\ x[1] < 0
    THEN LET c == Format2Plus(<<0 - x[1], x[2]>>)[1]
         IN IF c = 0 THEN <<"-", 0, 100>> ELSE <<0 - c, 100>>
    ELSE Format2Plus(x)

\* _convert_entity for the object o
ConvertEntity(h, o, ids) ==
    LET ext == h[o]
        summary_cn == Get(ext, "summary_cn", <<>>)
        line == Get(Get(ext, "source_location", <<>>), "line", None)
        text == Slice(Get(ext, "text", <<>>), 0, 100)
        attr(key, prefix) ==
            IF Truthy(Get(ext, key, <<>>))
            THEN <<Observation(prefix, ext[key])>> ELSE <<>>
    IN [name |-> MakeName(h, o, ids),
        entityType |-> Get(ext, "type", "entity"),
        observations |->
            (IF Truthy(summary_cn) THEN <<Observation("", summary_cn)>> ELSE <<>>)
            \o (IF line # None /\ line # 0
                THEN <<Observation("Source: ", <<Get(ext, "source_file", Unknown), line>>)>>
                ELSE <<>>)
            \o (IF "confidence" \in DOMAIN ext
                THEN <<Observation("Confidence: ", Format2(ext.confidence))>> ELSE <<>>)
            \o attr("trigger_context", "trigger_context: ")
            \o attr("consequence", "consequence: ")
            \o attr("reason", "reason: ")
            \o (IF ~Truthy(summary_cn) /\ Truthy(text)
                THEN <<Observation("Text: ", text)>> ELSE <<>>)]

\* _convert_relation
ConvertRelation(rel) ==
    [from |-> Get(rel, "from", <<>>),
     to |-> Get(rel, "to", <<>>),
     relationType |-> Get(rel, "relation_type", "relates_to")]

\* The objects convert asks id() about: the entities it emits that have
\* neither a summary nor a text.
AskedIdentity(inj, h, exts) ==
    {e \in Range(exts) : /\ HighConfidence(inj, h[e])
                         /\ TypeOf(h[e]) \in Typed(kg_entity_types)
                         /\ Nameless(h[e])}

\* What id() can answer for the objects of need, when known holds its
\* answers for the objects that are still alive: the answer it gave before
\* for an object of known, and for every other object an address that no
\* object alive has.  The addresses are 1, 2, ...; there are always
\* SpareAddresses more of them than objects to tell apart.
Identities(known, need) ==
    LET objects == (DOMAIN known) \cup need
        addresses == 1..(Cardinality(objects) + SpareAddresses)
    IN {ids \in [objects -> addresses \cup Range(known)] :
          /\ \A o \in DOMAIN known : ids[o] = known[o]
          /\ \A o1 \in objects, o2 \in objects : ids[o1] = ids[o2] => o1 = o2}

\* convert(extractions, relations), where id() answers ids
KGConvert(inj, h, exts, relations, ids) ==
    LET high_conf_extractions == SelectSeq(exts, LAMBDA e : HighConfidence(inj, h[e]))
        entities == SelectSeq(high_conf_extractions,
                              LAMBDA e : TypeOf(h[e]) \in Typed(kg_entity_types))
        explicit == SelectSeq(high_conf_extractions, LAMBDA e : TypeOf(h[e]) = <<"relation">>)
        passed == SelectSeq(relations, LAMBDA e : HighConfidence(inj, h[e]))
    IN [entities |-> [k \in 1..Len(entities) |-> ConvertEntity(h, entities[k], ids)],
        relations |-> [k \in 1..Len(explicit) |-> ConvertRelation(h[explicit[k]])]
                      \o [k \in 1..Len(passed) |-> ConvertRelation(h[passed[k]])]]

(***************************************************************************)
(* Injection runs: an injector with a threshold, and one call of convert   *)
(* on a list of items and a list of relations.                             *)
(***************************************************************************)
MaxInjectItems == 3

\* Items of entity types, of the relation type and of another type, with a
\* confidence below, at and above 0.3 and without one.
InjectUniverse ==
    {[type |-> "entity", text |-> <<"a", "\f", "U+3000", "b">>, confidence |-> <<85, 100>>,
      source_location |-> [line |-> 4]],
     [type |-> "rule", text |-> <<"r">>, summary_cn |-> <<"s">>, reason |-> <<"w">>,
      confidence |-> <<3, 10>>],
     [type |-> "entity", text |-> <<"l">>, confidence |-> <<2, 10>>],
     [type |-> "state"],
     [type |-> "skill", text |-> <<"p">>, confidence |-> <<9, 10>>],
     [type |-> "relation", from |-> <<"a">>, to |-> <<"r">>, relation_type |-> "uses",
      confidence |-> <<6, 10>>],
     [type |-> "relation", from |-> <<"a">>, to |-> <<"l">>, confidence |-> <<1, 10>>]}

\* Relations handed in: inferred ones above and below 0.3, and one without
\* a confidence.
InjectRelations ==
    {[from |-> <<"1">>, to |-> <<"2">>, type |-> "has_skill", target_name |-> <<"p">>,
      scope |-> "resume", confidence |-> <<765, 1000>>, inferred |-> TRUE],
     [from |-> <<"1">>, to |-> <<"3">>, type |-> "worked_at", target_name |-> <<"k">>,
      scope |-> "resume", confidence |-> <<255, 1000>>, inferred |-> TRUE],
     [from |-> <<"a">>, to |-> <<"r">>, relation_type |-> "governed_by"]}

InjectThresholds == {<<0, 1>>, <<3, 10>>, <<1, 2>>}

InitInject ==
    /\ grounder = NewGrounder(<<>>)
    /\ dedup = DefaultDedup
    /\ \E n \in 0..MaxInjectItems, m \in 0..2 :
          \E items \in [1..n -> InjectUniverse], rels \in [1..m -> InjectRelations] :
             /\ heap = items \o rels
             /\ extractions = [i \in 1..n |-> i]
             /\ inferred_relations = [i \in 1..m |-> n + i]
    /\ result = <<>>
    /\ pc = "ready"
    /\ walk = NoWalk
    /\ hist = NewHist(heap)
    /\ config = [DEFAULT_CONFIG EXCEPT !.kg_injection = TRUE]
    /\ resolver = NewResolver(DEFAULT_CONFIG.entity_similarity_threshold)
    /\ \E t \in InjectThresholds : injector = NewInjector(t)
    /\ kg_format = <<>>
    /\ source_file = <<>>
    /\ stats = <<>>
    /\ address = NoAddresses

\* kg_format = injector.convert(extractions, inferred_relations)
Convert ==
    /\ pc = "ready"
    /\ \E ids \in Identities(address, AskedIdentity(injector, heap, extractions)) :
          /\ kg_format' = KGConvert(injector, heap, extractions, inferred_relations, ids)
          /\ address' = ids
    /\ pc' = "converted"
    /\ UNCHANGED <<grounder, dedup, heap, extractions, result, walk, hist>>
    /\ UNCHANGED <<config, resolver, injector, inferred_relations>>
    /\ UNCHANGED <<source_file, stats>>

NextInject == Convert

SpecInject == InitInject /\ [][NextInject]_vars

(***************************************************************************)
(* Properties of the graph conversion.                                     *)
(***************************************************************************)
\* The confidence of an item as the claim counts it, and whether it is
\* below the threshold.
ConfidenceOrZero(ext) == IF "confidence" \in DOMAIN ext THEN ext.confidence ELSE <<0, 1>>

BelowThreshold(ext) ==
    ConfidenceOrZero(ext)[1] * injector.confidence_threshold[2]
        < injector.confidence_threshold[1] * ConfidenceOrZero(ext)[2]

\* C20: the entities are the conversions of the items that are not below
\* the threshold and have one of the five entity types, one each in input
\* order; the relations are the conversions of the relation items not below
\* the threshold, followed by those of the relations handed in that are not
\* below it; nothing handed in has changed.
C20_ThresholdFilter ==
    pc = "converted" =>
        LET ents == SelectSeq(extractions,
                       LAMBDA e : /\ ~BelowThreshold(heap[e])
                                  /\ "type" \in DOMAIN heap[e]
                                  /\ heap[e].type \in {"entity", "rule", "constraint",
                                                        "event", "state"})
            rels == SelectSeq(extractions,
                       LAMBDA e : /\ ~BelowThreshold(heap[e])
                                  /\ "type" \in DOMAIN heap[e]
                                  /\ heap[e].type = "relation")
                    \o SelectSeq(inferred_relations, LAMBDA e : ~BelowThreshold(heap[e]))
        IN /\ Len(kg_format.entities) = Len(ents)
           /\ \A k \in 1..Len(ents) :
                 kg_format.entities[k] = ConvertEntity(heap, ents[k], address)
           /\ kg_format.relations = [k \in 1..Len(rels) |-> ConvertRelation(heap[rels[k]])]
           /\ heap = hist.heap0

\* Items and relations below, at and above the threshold were handed in;
\* some came out and some did not.
C20_Witness ==
    /\ pc = "converted"
    /\ injector.confidence_threshold = <<3, 10>>
    /\ \E e \in Range(extractions) :
          TypeOf(heap[e]) = <<"rule">> /\ REq(ConfidenceOrZero(heap[e]), <<3, 10>>)
    /\ \E e \in Range(extractions) :
          TypeOf(heap[e]) = <<"entity">> /\ BelowThreshold(heap[e])
    /\ \E e \in Range(inferred_relations) : BelowThreshold(heap[e])
    /\ Len(kg_format.entities) = 1
    /\ Len(kg_format.relations) = 1

(***************************************************************************)
(* ExtractionPipeline.process (scripts/pipeline.py), stages 3 to 5: the    *)
(* list that deduplication returned is scored, resolved and searched for   *)
(* relations, each stage only if the configuration enables it.  result is  *)
(* the local variable extractions of process.                              *)
(***************************************************************************)
MaxPipelineItems == 4

\* Items of the list runs: entities that merge at the default threshold,
\* a relation between them, a candidate and a skill, with and without a
\* confidence from before.
PipelineUniverse ==
    {[type |-> "entity", text |-> <<"a", "b">>,
      source_location |-> [line |-> 1, match_type |-> "exact"]],
     [type |-> "entity", text |-> <<"a", " ", "b">>, summary_cn |-> <<"s">>],
     [type |-> "relation", from |-> <<"a", " ", "b">>, to |-> <<"a", "b">>,
      relation_type |-> "uses"],
     [type |-> "candidate", id |-> <<"1">>, text |-> <<"c">>],
     [type |-> "skill", id |-> <<"2">>, text |-> <<"p">>, confidence |-> <<999, 1000>>],
     [type |-> "entity", text |-> <<"a", "b">>, confidence |-> <<5, 1>>]}

\* The history of a pipeline run: the heap at the start and the list the
\* scorer returned.
NewPipelineHist(h) == [heap0 |-> h, scored |-> <<>>]

\* A pipeline with grounding and deduplication switched off and no source
\* file name, at the point where process reaches stage 3: stages 1 and 2
\* and the tagging were skipped, the list is the caller's.
InitPipeline ==
    /\ grounder = NewGrounder(<<>>)
    /\ dedup = DefaultDedup
    /\ \/ \E e \in ScoreUniverse : heap = <<e>>
       \/ \E n \in 0..MaxPipelineItems :
             heap \in [1..n -> PipelineUniverse]
    /\ extractions = [i \in 1..Len(heap) |-> i]
    /\ result = extractions
    /\ pc = "stage3"
    /\ walk = NoWalk
    /\ hist = NewPipelineHist(heap)
    /\ \E s \in BOOLEAN, r \in BOOLEAN, i \in BOOLEAN :
          config = [DEFAULT_CONFIG EXCEPT !.source_grounding = FALSE,
                                          !.overlap_dedup = FALSE,
                                          !.confidence_scoring = s,
                                          !.entity_resolution = r,
                                          !.relation_inference = i]
    /\ resolver = NewResolver(config.entity_similarity_threshold)
    /\ injector = NewInjector(config.confidence_threshold)
    /\ inferred_relations = <<>>
    /\ kg_format = <<>>
    /\ source_file = <<>>
    /\ stats = <<>>
    /\ address = NoAddresses

\* 3. Confidence Scoring
StageScore ==
    /\ pc = "stage3"
    /\ IF config.confidence_scoring
       THEN LET r == ScorerProcess(heap, result)
            IN /\ heap' = r.heap
               /\ result' = r.result
               /\ hist' = [hist EXCEPT !.scored = r.result]
       ELSE UNCHANGED <<heap, result, hist>>
    /\ pc' = "stage4"
    /\ UNCHANGED <<grounder, dedup, extractions, walk>>
    /\ UNCHANGED <<config, resolver, injector, inferred_relations, kg_format>>
    /\ UNCHANGED <<source_file, stats, address>>

\* 4. Entity Resolution
StageResolve ==
    /\ pc = "stage4"
    /\ IF config.entity_resolution
       THEN \E r \in {ResolverProcess(resolver, heap, result)} :
               /\ heap' = r.heap
               /\ result' = r.result
       ELSE UNCHANGED <<heap, result>>
    /\ pc' = "stage5"
    /\ UNCHANGED <<grounder, dedup, extractions, walk, hist>>
    /\ UNCHANGED <<config, resolver, injector, inferred_relations, kg_format>>
    /\ UNCHANGED <<source_file, stats, address>>

\* 5. Relation Inference
StageInfer ==
    /\ pc = "stage5"
    /\ IF config.relation_inference
       THEN LET r == InferrerProcess(heap, result)
            IN /\ heap' = r.heap
               /\ result' = r.result
               /\ inferred_relations' = r.relations
       ELSE UNCHANGED <<heap, result, inferred_relations>>
    /\ pc' = "stage6"
    /\ UNCHANGED <<grounder, dedup, extractions, walk, hist>>
    /\ UNCHANGED <<config, resolver, injector, kg_format>>
    /\ UNCHANGED <<source_file, stats, address>>

NextPipeline == StageScore \/ StageResolve \/ StageInfer

SpecPipeline == InitPipeline /\ [][NextPipeline]_vars

(***************************************************************************)
(* Properties of the confidence across the stages.                         *)
(***************************************************************************)
InUnitInterval(x) == x[2] > 0 /\ 0 <= x[1] /\ x[1] <= x[2]

\* C11: with scoring enabled, every item the scorer returns has a
\* confidence in [0, 1], and two items with equal fields get equal
\* confidences; every item of the list after entity resolution and after
\* relation inference is, up to rewritten relation endpoints, an item the
\* scorer returned, with the confidence the scorer gave it.
C11_ConfidenceKept ==
    (config.confidence_scoring /\ pc \in {"stage4", "stage5", "stage6"}) =>
        /\ Len(hist.scored) = Len(extractions)
        /\ \A i \in 1..Len(hist.scored) :
              /\ "confidence" \in DOMAIN heap[hist.scored[i]]
              /\ InUnitInterval(heap[hist.scored[i]].confidence)
              /\ \A j \in 1..Len(hist.scored) :
                    hist.heap0[extractions[i]] = hist.heap0[extractions[j]]
                       => heap[hist.scored[i]].confidence = heap[hist.scored[j]].confidence
        /\ \A k \in 1..Len(result) :
              /\ "confidence" \in DOMAIN heap[result[k]]
              /\ InUnitInterval(heap[result[k]].confidence)
              /\ \E i \in 1..Len(hist.scored) :
                    SameButEndpoints(heap[hist.scored[i]], heap[result[k]])

\* A run with every stage enabled came to its end: an entity was merged
\* away and a relation was inferred.
C11_Witness ==
    /\ pc = "stage6"
    /\ config.confidence_scoring /\ config.entity_resolution /\ config.relation_inference
    /\ Len(result) < Len(extractions)
    /\ inferred_relations # <<>>

\* A relation's endpoint was rewritten after scoring, and an item that had
\* a confidence outside [0, 1] before was scored.
C11_WitnessRewritten ==
    /\ pc = "stage6"
    /\ config.confidence_scoring /\ config.entity_resolution
    /\ \E k \in 1..Len(result) :
          /\ TypeOf(heap[result[k]]) = <<"relation">>
          /\ "from" \in DOMAIN heap[result[k]]
          /\ heap[result[k]].from = <<"a", "b">>
    /\ \E e \in Range(extractions) :
          "confidence" \in DOMAIN hist.heap0[e] /\ ~InUnitInterval(hist.heap0[e].confidence)

(***************************************************************************)
(* ExtractionPipeline (scripts/pipeline.py), the whole of process.  The    *)
(* variable extractions is the list raw_extractions the caller hands in,   *)
(* result is the local variable extractions of process.                    *)
(***************************************************************************)
MaxProcessItems == 2

\* OverlapDeduplicator(overlap_threshold, type_aware)
NewDeduplicator(overlap_threshold, type_aware) ==
    [overlap_threshold |-> overlap_threshold, type_aware |-> type_aware]

\* The "if" of stage 1 and its call of the grounder.
StageOne(cfg, g, h, exts) ==
    IF cfg.source_grounding THEN GrounderProcess(g, h, exts)
    ELSE [heap |-> h, result |-> exts]

\* A plausible slip: the tag written over a source_file the item has.
TagSourceFileAlways(h, exts, sf) ==
    IF Truthy(sf)
    THEN [o \in DOMAIN h |-> IF o \in Range(exts) THEN Put(h[o], "source_file", sf) ELSE h[o]]
    ELSE h

\* The loop that writes source_file into the items of the list, in place.
TagSourceFile(h, exts, sf) ==
    IF Truthy(sf)
    THEN [o \in DOMAIN h |->
            IF o \in Range(exts) /\ "source_file" \notin DOMAIN h[o]
            THEN Put(h[o], "source_file", sf)
            ELSE h[o]]
    ELSE h

\* The "if" of stage 2 and its call of the deduplicator.
StageTwo(cfg, d, h, exts) ==
    IF cfg.overlap_dedup THEN DedupProcess(h, d, exts) ELSE exts

\* convert as stage 6 calls it: every outcome, the graph output with the
\* answers of id() it was made with.
KGOutcomes(inj, h, exts, relations, known) ==
    {[kg_format |-> KGConvert(inj, h, exts, relations, ids), address |-> ids] :
       ids \in Identities(known, AskedIdentity(inj, h, exts))}

\* A plausible slip: the graph output produced whatever the switch says.
StageSixAlways(cfg, inj, h, exts, relations, known) ==
    KGOutcomes(inj, h, exts, relations, known)

\* kg_format = None, and the "if" of stage 6 with its call of the injector.
StageSix(cfg, inj, h, exts, relations, known) ==
    IF cfg.kg_injection THEN KGOutcomes(inj, h, exts, relations, known)
    ELSE {[kg_format |-> <<>>, address |-> known]}

\* sum(confidences) as the double the code holds: added from left to right,
\* starting from acc
FSum(xs, acc) ==
    CHOOSE r \in
        {LET sum[i \in 0..Len(x)] ==
                 IF i = 0 THEN acc ELSE FAdd(sum[i - 1], FloatOf(x[i]))
         IN sum[Len(x)] : x \in {xs}} : TRUE

RECURSIVE RSum(_)
RSum(xs) == IF xs = <<>> THEN <<0, 1>> ELSE RAdd(Head(xs), RSum(Tail(xs)))

\* The number of places of the list vals that hold v.
CountOf(vals, v) == Cardinality({i \in DOMAIN vals : vals[i] = v})

StatsType(ext) == Get(ext, "type", "unknown")

StatsConfidence(ext) == Get(ext, "confidence", <<0, 1>>)

StatsMatchType(ext) == Get(Get(ext, "source_location", <<>>), "match_type", "none")

\* A plausible slip: the middle band closed at 0.7 as well.
ConfidenceBandsClosed(h, exts) ==
    LET c == [i \in DOMAIN exts |-> StatsConfidence(h[exts[i]])]
    IN [high |-> CountOf([i \in DOMAIN exts |-> RLe(<<7, 10>>, c[i])], TRUE),
        medium |-> CountOf([i \in DOMAIN exts |-> /\ RLe(<<3, 10>>, c[i])
                                                   /\ RLe(c[i], <<7, 10>>)], TRUE),
        low |-> CountOf([i \in DOMAIN exts |-> RLt(c[i], <<3, 10>>)], TRUE)]

\* high_conf, medium_conf and low_conf of _compute_stats
ConfidenceBands(h, exts) ==
    LET c == [i \in DOMAIN exts |-> StatsConfidence(h[exts[i]])]
    IN [high |-> CountOf([i \in DOMAIN exts |-> RLe(<<7, 10>>, c[i])], TRUE),
        medium |-> CountOf([i \in DOMAIN exts |-> /\ RLe(<<3, 10>>, c[i])
                                                   /\ RLt(c[i], <<7, 10>>)], TRUE),
        low |-> CountOf([i \in DOMAIN exts |-> RLt(c[i], <<3, 10>>)], TRUE)]

\* _compute_stats(extractions, relations)
ComputeStats(h, exts, relations) ==
    LET total == Len(exts)
        confidences == [i \in DOMAIN exts |-> StatsConfidence(h[exts[i]])]
        avg_confidence == IF total > 0 THEN RMul(RSum(confidences), <<1, total>>)
                          ELSE <<0, 1>>
        rounded == IF HalfWay(avg_confidence)
                   THEN FRoundTo(FDiv(FSum(confidences, FZero), total), 1000)
                   ELSE Round3(avg_confidence)
    IN [total_extractions |-> total,
        by_type |-> [t \in {StatsType(h[e]) : e \in Range(exts)} |->
                        CountOf([i \in DOMAIN exts |-> StatsType(h[exts[i]])], t)],
        avg_confidence |-> rounded,
        confidence_distribution |-> ConfidenceBands(h, exts),
        match_quality |-> [m \in {StatsMatchType(h[e]) : e \in Range(exts)} |->
                              CountOf([i \in DOMAIN exts |-> StatsMatchType(h[exts[i]])], m)],
        inferred_relations |-> Len(relations)]

(***************************************************************************)
(* Pipeline runs: a pipeline constructed over a source, with a             *)
(* configuration and with or without a source file name, and process       *)
(* called on a list of items, stage by stage; then process called once     *)
(* more on the same list.                                                  *)
(***************************************************************************)
ProcessSource == <<"a", " ", "b", "\n", "a", "b">>

NoLocationItem ==
    [type |-> "entity", trigger_context |-> <<"t">>, consequence |-> <<"c">>,
     reason |-> <<"r">>]

\* Items of the runs: two entities that merge at the default threshold, a
\* relation between them that has no text and comes with the confidence
\* 0.3, a candidate that comes with the confidence 0.7, a skill whose text
\* lies inside the first entity's and which has a summary and a source_file
\* from before, and an entity with neither text nor summary.
ProcessUniverse ==
    {[type |-> "entity", text |-> <<"a", " ", "b">>],
     [type |-> "entity", text |-> <<"a", "b">>],
     [type |-> "relation", from |-> <<"a", " ", "b">>, to |-> <<"a", "b">>,
      relation_type |-> "uses", confidence |-> <<3, 10>>],
     [type |-> "candidate", id |-> <<"1">>, text |-> <<"c">>, confidence |-> <<7, 10>>],
     [type |-> "skill", id |-> <<"2">>, text |-> <<"b">>, summary_cn |-> <<"s">>,
      source_file |-> <<"g">>],
     NoLocationItem}

\* One batch with every item of the universe and an item without a type.
ProcessExample ==
    <<[type |-> "entity", text |-> <<"a", " ", "b">>],
      [type |-> "entity", text |-> <<"a", "b">>],
      [type |-> "relation", from |-> <<"a", " ", "b">>, to |-> <<"a", "b">>,
       relation_type |-> "uses", confidence |-> <<3, 10>>],
      [type |-> "candidate", id |-> <<"1">>, text |-> <<"c">>, confidence |-> <<7, 10>>],
      [type |-> "skill", id |-> <<"2">>, text |-> <<"b">>, summary_cn |-> <<"s">>,
       source_file |-> <<"g">>],
      NoLocationItem,
      [text |-> <<"c">>]>>

SourceFiles == {<<>>, <<"f">>}

\* The history of the runs: the heap the caller handed over, the list the
\* scorer returned, and what the first call of process returned once a
\* second one has begun.
NewProcessHist(h) == [heap0 |-> h, scored |-> <<>>, first |-> <<>>]

\* What a call returns, the items by their contents.
Returned ==
    [extractions |-> [i \in DOMAIN result |-> heap[result[i]]],
     inferred_relations |-> [i \in DOMAIN inferred_relations |-> heap[inferred_relations[i]]],
     kg_format |-> kg_format,
     stats |-> stats]

\* ExtractionPipeline(source_text, config, source_file)
InitProcess ==
    /\ \E g \in BOOLEAN, d \in BOOLEAN, s \in BOOLEAN, r \in BOOLEAN, i \in BOOLEAN,
          k \in BOOLEAN :
          config = [DEFAULT_CONFIG EXCEPT !.source_grounding = g,
                                          !.overlap_dedup = d,
                                          !.confidence_scoring = s,
                                          !.entity_resolution = r,
                                          !.relation_inference = i,
                                          !.kg_injection = k]
    /\ source_file \in SourceFiles
    /\ grounder = NewGrounder(ProcessSource)
    /\ dedup = NewDeduplicator(config.overlap_threshold, config.type_aware_dedup)
    /\ resolver = NewResolver(config.entity_similarity_threshold)
    /\ injector = NewInjector(config.confidence_threshold)
    /\ \/ \E n \in 0..MaxProcessItems : heap \in [1..n -> ProcessUniverse]
       \/ heap = ProcessExample
    /\ extractions = [i \in 1..Len(heap) |-> i]
    /\ result = <<>>
    /\ pc = "call"
    /\ walk = NoWalk
    /\ hist = NewProcessHist(heap)
    /\ inferred_relations = <<>>
    /\ kg_format = <<>>
    /\ stats = <<>>
    /\ address = NoAddresses

\* process(raw_extractions): extractions = raw_extractions,
\* inferred_relations = []
Call ==
    /\ pc = "call"
    /\ result' = extractions
    /\ inferred_relations' = <<>>
    /\ pc' = "stage1"
    /\ UNCHANGED <<grounder, dedup, heap, extractions, walk, hist>>
    /\ UNCHANGED <<config, resolver, injector, kg_format>>
    /\ UNCHANGED <<source_file, stats, address>>

\* 1. Source Grounding
StageGround ==
    /\ pc = "stage1"
    /\ \E r \in {StageOne(config, grounder, heap, result)} :
          /\ heap' = r.heap
          /\ result' = r.result
    /\ pc' = "tag"
    /\ UNCHANGED <<grounder, dedup, extractions, walk, hist>>
    /\ UNCHANGED <<config, resolver, injector, inferred_relations, kg_format>>
    /\ UNCHANGED <<source_file, stats, address>>

\* if self.source_file: for ext in extractions: ...
StageTag ==
    /\ pc = "tag"
    /\ heap' = TagSourceFile(heap, result, source_file)
    /\ pc' = "stage2"
    /\ UNCHANGED <<grounder, dedup, extractions, result, walk, hist>>
    /\ UNCHANGED <<config, resolver, injector, inferred_relations, kg_format>>
    /\ UNCHANGED <<source_file, stats, address>>

\* 2. Overlap Deduplication
StageDedup ==
    /\ pc = "stage2"
    /\ result' = StageTwo(config, dedup, heap, result)
    /\ pc' = "stage3"
    /\ UNCHANGED <<grounder, dedup, heap, extractions, walk, hist>>
    /\ UNCHANGED <<config, resolver, injector, inferred_relations, kg_format>>
    /\ UNCHANGED <<source_file, stats, address>>

\* 6. KG Injection
StageInject ==
    /\ pc = "stage6"
    /\ \E r \in StageSix(config, injector, heap, result, inferred_relations, address) :
          /\ kg_format' = r.kg_format
          /\ address' = r.address
    /\ pc' = "stats"
    /\ UNCHANGED <<grounder, dedup, heap, extractions, result, walk, hist>>
    /\ UNCHANGED <<config, resolver, injector, inferred_relations>>
    /\ UNCHANGED <<source_file, stats>>

\* stats = self._compute_stats(extractions, inferred_relations); return
Return ==
    /\ pc = "stats"
    /\ stats' = ComputeStats(heap, result, inferred_relations)
    /\ pc' = "done"
    /\ UNCHANGED <<grounder, dedup, heap, extractions, result, walk, hist>>
    /\ UNCHANGED <<config, resolver, injector, inferred_relations, kg_format>>
    /\ UNCHANGED <<source_file, address>>

NextProcess ==
    \/ Call \/ StageGround \/ StageTag \/ StageDedup
    \/ StageScore \/ StageResolve \/ StageInfer
    \/ StageInject \/ Return

SpecProcess == InitProcess /\ [][NextProcess]_vars

\* The answers of id() that stay taken when the objects of kept are the
\* ones still alive.  The address of an object that is gone can be given to
\* a new object.
StillAlive(known, kept) == [o \in (DOMAIN known) \cap kept |-> known[o]]

\* The caller calls process once more, on the list it handed in before,
\* holding on to all, to some or to none of the objects the first call
\* returned; the objects of the caller's own list stay alive.
CallAgain ==
    /\ pc = "done"
    /\ hist.first = <<>>
    /\ hist' = [hist EXCEPT !.first = <<Returned>>]
    /\ result' = extractions
    /\ inferred_relations' = <<>>
    /\ \E held \in SUBSET ((DOMAIN address) \ Range(extractions)) :
          address' = StillAlive(address, Range(extractions) \cup held)
    /\ pc' = "stage1"
    /\ UNCHANGED <<grounder, dedup, heap, extractions, walk>>
    /\ UNCHANGED <<config, resolver, injector, kg_format>>
    /\ UNCHANGED <<source_file, stats>>

NextRerun == NextProcess \/ CallAgain

SpecRerun == InitProcess /\ [][NextRerun]_vars

(***************************************************************************)
(* Properties of the pipeline runs.                                        *)
(***************************************************************************)
\* The stages that have returned when the run is at pc.
StagesDone ==
    CASE pc \in {"call", "stage1"} -> 0
      [] pc \in {"tag", "stage2"} -> 1
      [] pc = "stage3" -> 2
      [] pc = "stage4" -> 3
      [] pc = "stage5" -> 4
      [] OTHER -> 5

\* What stage k makes of the heap, the list and the relations of st, as
\* the claim has it: nothing if it is disabled, its process applied to the
\* list if it is enabled; the source_file tag follows stage 1.
ClaimedStage(k, st) ==
    CASE k = 1 ->
           LET r == IF config.source_grounding
                    THEN GrounderProcess(grounder, st.heap, st.result)
                    ELSE [heap |-> st.heap, result |-> st.result]
           IN [st EXCEPT !.heap = r.heap, !.result = r.result]
      [] k = 2 ->
           IF config.overlap_dedup
           THEN [st EXCEPT !.result = DedupProcess(st.heap, dedup, st.result)]
           ELSE st
      [] k = 3 ->
           IF config.confidence_scoring
           THEN LET r == ScorerProcess(st.heap, st.result)
                IN [st EXCEPT !.heap = r.heap, !.result = r.result]
           ELSE st
      [] k = 4 ->
           IF config.entity_resolution
           THEN LET r == ResolverProcess(resolver, st.heap, st.result)
                IN [st EXCEPT !.heap = r.heap, !.result = r.result]
           ELSE st
      [] k = 5 ->
           IF config.relation_inference
           THEN LET r == InferrerProcess(st.heap, st.result)
                IN [heap |-> r.heap, result |-> r.result, relations |-> r.relations]
           ELSE st

ClaimedTag(st) ==
    IF source_file = <<>> THEN st
    ELSE [st EXCEPT !.heap = [o \in DOMAIN @ |->
                                IF o \in Range(st.result) /\ "source_file" \notin DOMAIN @[o]
                                THEN [x \in (DOMAIN @[o]) \cup {"source_file"} |->
                                        IF x = "source_file" THEN source_file ELSE @[o][x]]
                                ELSE @[o]]]

RECURSIVE ClaimedAfter(_)
ClaimedAfter(k) ==
    IF k = 0 THEN [heap |-> hist.heap0, result |-> extractions, relations |-> <<>>]
    ELSE IF k = 2 THEN ClaimedStage(2, ClaimedTag(ClaimedAfter(1)))
    ELSE ClaimedStage(k, ClaimedAfter(k - 1))

AllDisabled ==
    /\ ~config.source_grounding /\ ~config.overlap_dedup /\ ~config.confidence_scoring
    /\ ~config.entity_resolution /\ ~config.relation_inference /\ ~config.kg_injection

\* C21: at every point of a run the list, the heap and the inferred
\* relations are what the stages that have returned so far, taken in the
\* order grounding, dedup, scoring, entity resolution, relation inference,
\* make of the caller's list, each one given the list the one before it
\* returned and a disabled one leaving everything as it is; at the end
\* kg_format is there exactly when kg_injection is enabled, and is then the
\* conversion of that list and those relations; with every stage disabled
\* and no source_file the list returned is the caller's, no item has
\* changed, there is no inferred relation and no kg_format.
C21_StageOrder ==
    /\ pc # "call" =>
          LET st == IF pc = "stage2" THEN ClaimedTag(ClaimedAfter(1))
                    ELSE ClaimedAfter(StagesDone)
          IN /\ heap = st.heap
             /\ result = st.result
             /\ inferred_relations = st.relations
    /\ pc \in {"stats", "done"} =>
          /\ (kg_format # <<>>) <=> config.kg_injection
          /\ config.kg_injection =>
                kg_format = KGConvert(injector, heap, result, inferred_relations, address)
    /\ (pc = "done" /\ AllDisabled /\ source_file = <<>>) =>
          /\ result = extractions
          /\ heap = hist.heap0
          /\ inferred_relations = <<>>
          /\ kg_format = <<>>
    /\ pc \in {"call", "stage1", "tag", "stage2", "stage3", "stage4", "stage5", "stage6"}
          => stats = <<>>

\* A run of the example batch with every stage enabled came to its end: an
\* item was removed, a relation was inferred and the graph has an entity.
C21_Witness ==
    /\ pc = "done"
    /\ config.source_grounding /\ config.overlap_dedup /\ config.confidence_scoring
    /\ config.entity_resolution /\ config.relation_inference /\ config.kg_injection
    /\ Len(extractions) = Len(ProcessExample)
    /\ Len(result) < Len(extractions)
    /\ inferred_relations # <<>>
    /\ kg_format.entities # <<>>

\* A run of the example batch with every stage disabled came to its end.
C21_WitnessAllDisabled ==
    /\ pc = "done"
    /\ AllDisabled
    /\ source_file = <<>>
    /\ Len(extractions) = Len(ProcessExample)

\* Scoring ran on what a disabled dedup left alone: grounding and scoring
\* enabled, dedup disabled, two items whose places in the source overlap.
C21_WitnessSkipped ==
    /\ pc = "done"
    /\ config.source_grounding /\ ~config.overlap_dedup /\ config.confidence_scoring
    /\ Len(result) = Len(extractions)
    /\ Len(DedupProcess(heap, dedup, result)) < Len(result)

\* e is item ext with the key source_file added and nothing else changed.
GainedSourceFile(ext, e) ==
    /\ "source_file" \notin DOMAIN ext
    /\ DOMAIN e = (DOMAIN ext) \cup {"source_file"}
    /\ e.source_file = source_file
    /\ \A x \in DOMAIN ext : e[x] = ext[x]

\* C22: no step of process changes an object that exists, except the step
\* between grounding and dedup of a pipeline that has a source_file: it
\* adds source_file to every item of the list that has no such key and
\* leaves those that have one as they are; from then on, and in what
\* process returns, every item of the list has a source_file.
C22_TaggedOnce ==
    [][/\ Len(heap') >= Len(heap)
       /\ \A o \in DOMAIN heap :
             \/ heap'[o] = heap[o]
             \/ /\ pc = "tag" /\ pc' = "stage2"
                /\ source_file # <<>>
                /\ o \in Range(result)
                /\ GainedSourceFile(heap[o], heap'[o])
       /\ (pc = "tag" /\ source_file # <<>>) =>
             \A e \in Range(result) :
                "source_file" \notin DOMAIN heap[e] => heap'[e] # heap[e]
       /\ (source_file # <<>> /\ pc' \in {"stage2", "stage3", "stage4", "stage5",
                                          "stage6", "stats", "done"}) =>
             \A e \in Range(result') : "source_file" \in DOMAIN heap'[e]
      ]_vars

\* A run with a source_file came to its end: an item of the list returned
\* has the pipeline's source_file, another one still has the one it came
\* with, and an item of the caller's, which was never copied, has gained
\* the key.
C22_Witness ==
    /\ pc = "done"
    /\ source_file = <<"f">>
    /\ \E e \in Range(result) : heap[e].source_file = <<"f">>
    /\ \E e \in Range(result) : heap[e].source_file = <<"g">>
    /\ \E o \in DOMAIN hist.heap0 : GainedSourceFile(hist.heap0[o], heap[o])
    /\ \E o \in DOMAIN hist.heap0 : heap[o] = hist.heap0[o]

\* The sum of the values of a function with a finite domain.
RECURSIVE SumOver(_)
SumOver(f) ==
    IF DOMAIN f = {} THEN 0
    ELSE LET k == CHOOSE x \in DOMAIN f : TRUE
         IN f[k] + SumOver([x \in (DOMAIN f) \ {k} |-> f[x]])

\* The band of the claim a confidence c falls in.
ClaimedBand(c) ==
    IF c[1] * 10 >= 7 * c[2] THEN "high"
    ELSE IF c[1] * 10 >= 3 * c[2] THEN "medium"
    ELSE "low"

\* C23: in what process returns, total_extractions is the length of the
\* list returned; by_type has, for every type, the number of items of it
\* (items without a type under "unknown") and its counts add up to the
\* total; the counts of the bands high, medium and low are the numbers of
\* items whose confidence (0 if missing) is at least 0.7, from 0.3 to below
\* 0.7, and below 0.3, and add up to the total; match_quality has, for
\* every match type, the number of items of it (items without one under
\* "none") and its counts add up to the total; inferred_relations is the
\* length of the list of inferred relations.
C23_StatsConsistent ==
    pc = "done" =>
        LET conf(e) == IF "confidence" \in DOMAIN heap[e] THEN heap[e].confidence ELSE <<0, 1>>
            type(e) == IF "type" \in DOMAIN heap[e] THEN heap[e].type ELSE "unknown"
            match(e) == IF /\ "source_location" \in DOMAIN heap[e]
                           /\ "match_type" \in DOMAIN heap[e].source_location
                        THEN heap[e].source_location.match_type ELSE "none"
            band(b) == Cardinality({i \in DOMAIN result : ClaimedBand(conf(result[i])) = b})
        IN /\ stats.total_extractions = Len(result)
           /\ SumOver(stats.by_type) = Len(result)
           /\ \A i \in DOMAIN result :
                 /\ type(result[i]) \in DOMAIN stats.by_type
                 /\ stats.by_type[type(result[i])] =
                       Cardinality({j \in DOMAIN result : type(result[j]) = type(result[i])})
           /\ stats.confidence_distribution.high = band("high")
           /\ stats.confidence_distribution.medium = band("medium")
           /\ stats.confidence_distribution.low = band("low")
           /\ stats.confidence_distribution.high + stats.confidence_distribution.medium
                 + stats.confidence_distribution.low = Len(result)
           /\ SumOver(stats.match_quality) = Len(result)
           /\ \A i \in DOMAIN result :
                 /\ match(result[i]) \in DOMAIN stats.match_quality
                 /\ stats.match_quality[match(result[i])] =
                       Cardinality({j \in DOMAIN result : match(result[j]) = match(result[i])})
           /\ stats.inferred_relations = Len(inferred_relations)

\* A run came to its end with items in two bands, of several types and one
\* without a type, some without a source_location, and with an inferred
\* relation.
C23_Witness ==
    /\ pc = "done"
    /\ stats.confidence_distribution.medium > 0
    /\ stats.confidence_distribution.low > 0
    /\ Cardinality(DOMAIN stats.by_type) >= 3
    /\ "unknown" \in DOMAIN stats.by_type
    /\ DOMAIN stats.match_quality = {"exact", "none"}
    /\ stats.inferred_relations > 0

\* A run came to its end with an item whose confidence is exactly 0.7.
C23_WitnessBoundary ==
    /\ pc = "done"
    /\ \E e \in Range(result) :
          "confidence" \in DOMAIN heap[e] /\ REq(heap[e].confidence, <<7, 10>>)

\* The caller's items are as they were handed over, apart from a
\* source_file key that some have gained.
CallerItemsKept ==
    /\ Len(heap) >= Len(hist.heap0)
    /\ \A o \in DOMAIN hist.heap0 :
          \/ heap[o] = hist.heap0[o]
          \/ GainedSourceFile(hist.heap0[o], heap[o])

\* C24: when a second call of process on the list of the first call has
\* returned, it has returned what the first call returned: equal
\* extractions, inferred relations, kg_format and stats; and at every point
\* the caller's list is the one handed over and the caller's items are as
\* they were, apart from a source_file key gained.
C24_Repeatable ==
    /\ CallerItemsKept
    /\ extractions = [i \in 1..Len(hist.heap0) |-> i]
    /\ (pc = "done" /\ hist.first # <<>>) => Returned = hist.first[1]

\* A kg_format with every entity name made from an object identity
\* replaced by the bare prefix.
WithoutIdentities(kg) ==
    IF kg = <<>> THEN kg
    ELSE [kg EXCEPT !.entities =
            [i \in DOMAIN @ |->
               [@[i] EXCEPT !.name = IF Len(@) = 2 /\ @[1] = "Entity_"
                                     THEN <<"Entity_">> ELSE @]]]

\* What does hold of a second call: everything is equal up to the entity
\* names made from object identities.
C24_RepeatableUpToIdentities ==
    /\ CallerItemsKept
    /\ extractions = [i \in 1..Len(hist.heap0) |-> i]
    /\ (pc = "done" /\ hist.first # <<>>) =>
          /\ [Returned EXCEPT !.kg_format = WithoutIdentities(@)]
                = [hist.first[1] EXCEPT !.kg_format = WithoutIdentities(@)]

\* A second call has returned, and both calls named an entity after the
\* identity of an object.
C24_WitnessIdentity ==
    /\ pc = "done"
    /\ hist.first # <<>>
    /\ config.kg_injection
    /\ \E i \in DOMAIN kg_format.entities :
          /\ Len(kg_format.entities[i].name) = 2
          /\ kg_format.entities[i].name[1] = "Entity_"
    /\ Len(kg_format.entities) = Len(hist.first[1].kg_format.entities)

\* A second call has returned after the caller let go of the first result,
\* and a copy the scorer made in the second call was given the address of
\* one that was gone: the two results are equal, identity-made names
\* included.
C24_WitnessAddressReused ==
    /\ pc = "done"
    /\ hist.first # <<>>
    /\ config.kg_injection
    /\ \E i \in DOMAIN kg_format.entities :
          /\ Len(kg_format.entities[i].name) = 2
          /\ kg_format.entities[i].name[1] = "Entity_"
    /\ config.confidence_scoring
    /\ Returned = hist.first[1]

\* The entity names of a kg_format that were made from object identities.
IdentityNames(kg) ==
    {kg.entities[i].name : i \in {j \in DOMAIN kg.entities :
                                    /\ Len(kg.entities[j].name) = 2
                                    /\ kg.entities[j].name[1] = "Entity_"}}

\* A second call has returned after the caller let go of a part of the
\* first result: of two names made from identities, the second result has
\* one in common with the first and one that the first has not.
C24_WitnessAddressReusedInPart ==
    /\ pc = "done"
    /\ hist.first # <<>>
    /\ config.kg_injection
    /\ config.confidence_scoring
    /\ Cardinality(IdentityNames(kg_format)) = 2
    /\ Cardinality(IdentityNames(hist.first[1].kg_format)) = 2
    /\ Cardinality(IdentityNames(kg_format) \cap IdentityNames(hist.first[1].kg_format)) = 1

(***************************************************************************)
(* Properties of the attribute completeness.                               *)
(***************************************************************************)
\* The sub-score as the claim has it: (s + min(2, k)) / 3, at most 1.
ClaimedAttrCompleteness(ext) ==
    LET present(a) == a \in DOMAIN ext /\ ext[a] # <<>>
        s == IF present("summary_cn") THEN 1 ELSE 0
        k == Cardinality({a \in {"trigger_context", "consequence", "reason",
                                 "related_entities"} : present(a)})
        points == s + (IF k < 2 THEN k ELSE 2)
    IN IF points >= 3 THEN <<1, 1>> ELSE <<points, 3>>

\* C25: the attribute completeness of every item scored is
\* (s + min(2, k)) / 3 capped at 1, so that of an item without a summary is
\* at most 2/3.
C25_AttrCompleteness ==
    pc = "scored" =>
        \A e \in Range(extractions) :
           /\ REq(CalcAttrCompleteness(hist.heap0[e]), ClaimedAttrCompleteness(hist.heap0[e]))
           /\ ~Truthy(Get(hist.heap0[e], "summary_cn", <<>>))
                 => RLe(CalcAttrCompleteness(hist.heap0[e]), <<2, 3>>)

\* What does hold: the sub-score is (s + k) / 3 capped at 1.
C25_AttrCompletenessUncapped ==
    pc = "scored" =>
        \A e \in Range(extractions) :
           LET ext == hist.heap0[e]
               n == Cardinality({a \in {"summary_cn", "trigger_context", "consequence",
                                        "reason", "related_entities"} :
                                    a \in DOMAIN ext /\ ext[a] # <<>>})
           IN REq(CalcAttrCompleteness(ext), IF n >= 3 THEN <<1, 1>> ELSE <<n, 3>>)

\* An item without a summary and with three of the other attributes has
\* been scored.
C25_WitnessNoSummary ==
    /\ pc = "scored"
    /\ \E e \in Range(extractions) :
          /\ "summary_cn" \notin DOMAIN hist.heap0[e]
          /\ {"trigger_context", "consequence", "reason"} \subseteq DOMAIN hist.heap0[e]

(***************************************************************************)
(* Properties of the clustering.                                           *)
(***************************************************************************)
\* The place of item e in the list l (e occurs once in l).
PlaceIn(l, e) == CHOOSE p \in DOMAIN l : l[p] = e

\* The entity items of the batch handed to the resolver, and their clusters.
BatchEntities == EntitiesOf(hist.heap0, extractions)

BatchClusters == Cluster(resolver, hist.heap0, BatchEntities)

SimilarToSeed(seed, other) ==
    SimilarityAtLeast(NameOf(hist.heap0[seed]), NameOf(hist.heap0[other]),
                      resolver.threshold)

\* C26: the clusters of the entity items of a batch are a partition of
\* them: every entity is a member of one cluster, once; a cluster's first
\* member is the earliest entity that is in no earlier cluster; its other
\* members come after it in the batch, in batch order, and are similar
\* enough to it; and every entity after it that is in no earlier cluster
\* and is similar enough to it is a member.
C26_ClusterPartition ==
    pc = "resolved" =>
        LET ents == BatchEntities
            cl == BatchClusters
            earlier(c) == UNION {Range(cl[d]) : d \in 1..(c - 1)}
        IN /\ \A c \in DOMAIN cl : cl[c] # <<>> /\ Range(cl[c]) \subseteq Range(ents)
           /\ \A e \in Range(ents) :
                 Cardinality({m \in (DOMAIN cl) \X (1..Len(ents)) :
                                 m[2] <= Len(cl[m[1]]) /\ cl[m[1]][m[2]] = e}) = 1
           /\ \A c \in DOMAIN cl :
                 LET seed == cl[c][1]
                 IN /\ seed \notin earlier(c)
                    /\ \A e \in Range(ents) :
                          PlaceIn(ents, e) < PlaceIn(ents, seed) => e \in earlier(c)
                    /\ \A k \in 2..Len(cl[c]) :
                          /\ PlaceIn(ents, cl[c][k]) > PlaceIn(ents, cl[c][k - 1])
                          /\ SimilarToSeed(seed, cl[c][k])
                    /\ \A e \in Range(ents) :
                          (/\ PlaceIn(ents, e) > PlaceIn(ents, seed)
                           /\ e \notin earlier(c)
                           /\ SimilarToSeed(seed, e)) => e \in Range(cl[c])

\* A batch was resolved in which an entity is similar enough to the seeds
\* of two clusters, comes after both, and is a member of the first.
C26_Witness ==
    /\ pc = "resolved"
    /\ Len(BatchEntities) >= 3
    /\ \E c \in DOMAIN BatchClusters, d \in DOMAIN BatchClusters :
          /\ c < d
          /\ \E e \in Range(BatchClusters[c]) :
                /\ e # BatchClusters[c][1]
                /\ SimilarToSeed(BatchClusters[d][1], e)
                /\ PlaceIn(BatchEntities, e) > PlaceIn(BatchEntities, BatchClusters[d][1])

\* A batch was resolved in which the exact score of two names is the
\* threshold and the score the resolver computed is below it: they are in
\* two clusters.
C26_WitnessRounding ==
    /\ pc = "resolved"
    /\ Len(BatchEntities) = 2
    /\ \E a \in {NameOf(hist.heap0[BatchEntities[1]])},
          b \in {NameOf(hist.heap0[BatchEntities[2]])} :
          /\ a # b
          /\ Find(b, a) # 0 - 1
          /\ REq(<<9 * Len(a), 10 * Len(b)>>, resolver.threshold)
          /\ ~FLe(FloatOf(resolver.threshold), AsDouble(Similarity(a, b)))
    /\ Len(BatchClusters) = 2

(***************************************************************************)
(* Properties of the target name.                                          *)
(***************************************************************************)
\* The attribute of a sub-item that its rule names.
ClaimedField(t) ==
    CASE t = "experience" -> "company"
      [] t = "education" -> "school"
      [] t = "skill" -> "name"
      [] t = "certification" -> "name"

\* The target name as the claim has it: the rule's attribute if it is not
\* empty, else the summary if it is not empty, else the text.
ClaimedTargetName(sub) ==
    LET field == ClaimedField(sub.type)
        attribute == IF "attributes" \in DOMAIN sub /\ field \in DOMAIN sub.attributes
                     THEN sub.attributes[field] ELSE <<>>
        summary == IF "summary_cn" \in DOMAIN sub THEN sub.summary_cn ELSE <<>>
        text == IF "text" \in DOMAIN sub THEN sub.text ELSE <<>>
    IN IF attribute # <<>> THEN attribute
       ELSE IF summary # <<>> THEN summary
       ELSE text

\* The sub-item the k-th inferred relation was made from.
SubItemOf(k) ==
    LET subs == RuleTyped(hist.heap0, extractions)
    IN hist.heap0[subs[((k - 1) % Len(subs)) + 1]]

\* C27: the target_name of every inferred relation is the rule's attribute
\* of its sub-item if that is not empty, else the sub-item's summary if
\* that is not empty, else the sub-item's text.
C27_TargetName ==
    pc = "inferred" =>
        \A k \in DOMAIN inferred_relations :
           heap[inferred_relations[k]].target_name = ClaimedTargetName(SubItemOf(k))

\* What does hold: the summary is passed over only when the sub-item has no
\* summary_cn key at all.
C27_TargetNameKeyed ==
    pc = "inferred" =>
        \A k \in DOMAIN inferred_relations :
           LET sub == SubItemOf(k)
               field == ClaimedField(sub.type)
               attribute == IF "attributes" \in DOMAIN sub /\ field \in DOMAIN sub.attributes
                            THEN sub.attributes[field] ELSE <<>>
           IN heap[inferred_relations[k]].target_name =
                 (IF attribute # <<>> THEN attribute
                  ELSE IF "summary_cn" \in DOMAIN sub THEN sub.summary_cn
                  ELSE IF "text" \in DOMAIN sub THEN sub.text
                  ELSE <<>>)

\* A relation was inferred from a sub-item that has an empty summary and a
\* text, and one from a sub-item whose rule attribute is set.
C27_WitnessEmptySummary ==
    /\ pc = "inferred"
    /\ \E k \in DOMAIN inferred_relations :
          /\ "summary_cn" \in DOMAIN SubItemOf(k)
          /\ SubItemOf(k).summary_cn = <<>>
          /\ SubItemOf(k).text # <<>>
    /\ \E k \in DOMAIN inferred_relations :
          heap[inferred_relations[k]].target_name = <<"k">>

(***************************************************************************)
(* Properties of the relation types in the graph.                          *)
(***************************************************************************)
\* The relation type a record carries: relation_type on a relation item,
\* the rule's type on an inferred relation.
ClaimedGraphType(rel) ==
    IF "relation_type" \in DOMAIN rel THEN rel.relation_type
    ELSE IF "inferred" \in DOMAIN rel /\ "type" \in DOMAIN rel THEN rel.type
    ELSE "relates_to"

\* The records the relations of the graph were made from, in output order.
RelationRecords ==
    SelectSeq(result,
              LAMBDA e : ~BelowThreshold(heap[e]) /\ TypeOf(heap[e]) = <<"relation">>)
    \o SelectSeq(inferred_relations, LAMBDA e : ~BelowThreshold(heap[e]))

\* C28: after a run with graph conversion enabled, every relation of the
\* graph has the relation type of the record it was made from: the
\* relation_type of a relation item, the rule's type (worked_at,
\* studied_at, has_skill, certified_by) of an inferred relation; so no
\* inferred relation comes out as "relates_to".
C28_RelationTypeKept ==
    (pc = "done" /\ config.kg_injection) =>
        /\ Len(kg_format.relations) = Len(RelationRecords)
        /\ \A k \in DOMAIN kg_format.relations :
              kg_format.relations[k].relationType
                  = ClaimedGraphType(heap[RelationRecords[k]])

\* What does hold: the relation type is that of the relation_type key, and
\* "relates_to" for every record without one, inferred or not.
C28_RelationTypeByKey ==
    (pc = "done" /\ config.kg_injection) =>
        /\ Len(kg_format.relations) = Len(RelationRecords)
        /\ \A k \in DOMAIN kg_format.relations :
              LET rel == heap[RelationRecords[k]]
              IN kg_format.relations[k].relationType
                    = (IF "relation_type" \in DOMAIN rel THEN rel.relation_type
                       ELSE "relates_to")

\* A run with inference and graph conversion enabled put a relation item
\* and an inferred relation into the graph.
C28_WitnessInferred ==
    /\ pc = "done"
    /\ config.kg_injection
    /\ config.relation_inference
    /\ \E k \in DOMAIN kg_format.relations :
          /\ "inferred" \in DOMAIN heap[RelationRecords[k]]
          /\ heap[RelationRecords[k]].type = "has_skill"
    /\ \E k \in DOMAIN kg_format.relations :
          kg_format.relations[k].relationType = "uses"

(***************************************************************************)
(* Properties of the references after resolution.                          *)
(***************************************************************************)
\* The relation items of a list, in order.
RelationsOf(h, l) == SelectSeq(l, LAMBDA e : TypeOf(h[e]) = <<"relation">>)

\* The names of the entity items of a list.
EntityNames(h, l) == {NameOf(h[e]) : e \in Range(EntitiesOf(h, l))}

BatchAliasMap == BuildAliasMap(hist.heap0, BatchClusters)

\* C29: after a batch is resolved, every endpoint (from, to) of a relation
\* that named an entity of the batch names an entity of the list returned;
\* no value of the alias map is one of its keys; so no endpoint names an
\* entity that was dropped.
C29_ReferentialIntegrity ==
    pc = "resolved" =>
        LET in == RelationsOf(hist.heap0, extractions)
            out == RelationsOf(heap, result)
            names0 == EntityNames(hist.heap0, extractions)
            names == EntityNames(heap, result)
        IN /\ Len(out) = Len(in)
           /\ \A k \in DOMAIN in : \A f \in {"from", "to"} :
                 (f \in DOMAIN hist.heap0[in[k]] /\ hist.heap0[in[k]][f] \in names0)
                    => (f \in DOMAIN heap[out[k]] /\ heap[out[k]][f] \in names)
           /\ \A a \in DOMAIN BatchAliasMap : BatchAliasMap[a] \notin DOMAIN BatchAliasMap
           /\ \A k \in DOMAIN out : \A f \in {"from", "to"} :
                 f \in DOMAIN heap[out[k]] => heap[out[k]][f] \notin (names0 \ names)

\* A batch was resolved in which the from and the to of a relation each
\* named an entity that was dropped, and each now names the entity kept in
\* its place.
C29_Witness ==
    /\ pc = "resolved"
    /\ \E k \in DOMAIN RelationsOf(hist.heap0, extractions) :
          LET in == hist.heap0[RelationsOf(hist.heap0, extractions)[k]]
              out == heap[RelationsOf(heap, result)[k]]
          IN /\ in.from \in DOMAIN BatchAliasMap
             /\ in.from \notin EntityNames(heap, result)
             /\ out.from # in.from
             /\ out.from \in EntityNames(heap, result)
             /\ in.to \in DOMAIN BatchAliasMap
             /\ in.to \notin EntityNames(heap, result)
             /\ out.to # in.to
             /\ out.to \in EntityNames(heap, result)

(***************************************************************************)
(* Properties of the locations.                                            *)
(***************************************************************************)
\* The number of line breaks of s.
LineBreaks(s) == Cardinality({p \in DOMAIN s : s[p] = "\n"})

\* A location has the offsets, the interval and the line of a place in the
\* source.
WellPlaced(loc) ==
    /\ 0 <= loc.char_start
    /\ loc.char_start <= loc.char_end
    /\ loc.char_end <= Len(Src)
    /\ loc.char_interval = <<loc.char_start, loc.char_end>>
    /\ loc.line = 1 + LineBreaks(Slice(Src, 0, loc.char_start))
    /\ 1 <= loc.line
    /\ loc.line <= 1 + LineBreaks(Src)

\* The doubles 0.24 and 0.8, the bounds of a fuzzy confidence.
FuzzyLeast == FloatOf(<<24, 100>>)
FuzzyBelow == FloatOf(<<8, 10>>)

\* The confidence of a location is the one of its tier: 1.0 for exact, 0.85
\* for normalized, at least 0.24 and below 0.8 for fuzzy, 0.1 for none.
TierConfidence(loc) ==
    CASE loc.match_type = "exact" -> REq(loc.confidence, <<1, 1>>)
      [] loc.match_type = "normalized" -> REq(loc.confidence, <<85, 100>>)
      [] loc.match_type = "fuzzy" ->
            /\ FLe(FuzzyLeast, loc.confidence)
            /\ ~FLe(FuzzyBelow, loc.confidence)
      [] loc.match_type = "none" -> REq(loc.confidence, <<1, 10>>)
      [] OTHER -> FALSE

\* C30: every location that grounding produces with match_type exact,
\* normalized or fuzzy has 0 <= char_start <= char_end <= len(source),
\* char_interval = (char_start, char_end) and line = 1 + the number of line
\* breaks before char_start, a line of the source; and its confidence is
\* that of its tier, 1.0 > 0.85 > fuzzy (0.24 or more, below 0.8) > 0.1.
C30_LocationInvariants ==
    \A i \in DOMAIN extractions :
       Grounded(i) =>
          /\ OutLoc(i).match_type \in {"exact", "normalized", "fuzzy", "none"}
          /\ OutLoc(i).match_type # "none" => WellPlaced(OutLoc(i))
          /\ TierConfidence(OutLoc(i))

\* A list was grounded in which one item is exact and another normalized,
\* both on the second line of the source and not at its start.
C30_Witness ==
    /\ pc = "grounded"
    /\ \E i \in DOMAIN extractions, j \in DOMAIN extractions :
          /\ Grounded(i) /\ Grounded(j)
          /\ OutLoc(i).match_type = "exact"
          /\ OutLoc(j).match_type = "normalized"
          /\ OutLoc(i).line = 2 /\ OutLoc(i).char_start > 0
          /\ OutLoc(j).line = 2 /\ OutLoc(j).char_end = Len(Src)

\* A text was grounded fuzzy on the second line of its source, and its
\* match ends before the end of the source.
C30_WitnessFuzzy ==
    /\ Grounded(1)
    /\ OutLoc(1).match_type = "fuzzy"
    /\ OutLoc(1).line = 2
    /\ OutLoc(1).char_start < OutLoc(1).char_end
    /\ OutLoc(1).char_end < Len(Src)

\* A text without any match in its source was grounded.
C30_WitnessNone ==
    /\ Grounded(1)
    /\ OutLoc(1).match_type = "none"
    /\ Src # <<>>

====
